---- MODULE Spec2Model ----
(***************************************************************************)
(* Model of the bar plottable linkage (QCPBars stacking, QCPBarsGroup      *)
(* membership) of src/plottables/plottable-bars.cpp and of the colour      *)
(* gradient of src/colorgradient.cpp.                                      *)
(***************************************************************************)
EXTENDS Integers, Sequences, FiniteSets, TLC

(***************************************************************************)
(* Bounds                                                                  *)
(***************************************************************************)
NumBars == 4
NumGroups == 2
\* series constructed in the specifications that exercise group membership
NumMembers == 3
\* largest level count given to setLevelCount
MaxLevelCount == 3
MaxRebuildLevels == 6

Bars == 1..NumBars
Groups == 1..NumGroups
\* the null pointer, for QCPBars* and for QCPBarsGroup*
NoBar == 0
NoGroup == 0

VARIABLES
  alive,        \* QCPBars objects constructed and not yet destroyed
  keyAxis,      \* QCPBars::mKeyAxis of each series
  valueAxis,    \* QCPBars::mValueAxis of each series
  mBarBelow,    \* QCPBars::mBarBelow
  mBarAbove,    \* QCPBars::mBarAbove
  mBarsGroup,   \* QCPBars::mBarsGroup
  mDataContainer, \* QCPBars::mDataContainer, a key-sorted sequence of points
  groupAlive,   \* QCPBarsGroup objects constructed and not yet destroyed
  mBars,        \* QCPBarsGroup::mBars, the member list of each group
  mBaseValue,   \* QCPBars::mBaseValue
  mWidth,       \* QCPBars::mWidth, in quarters
  mWidthType,   \* QCPBars::mWidthType
  mSpacing,     \* QCPBarsGroup::mSpacing, in quarters
  mSpacingType, \* QCPBarsGroup::mSpacingType
  last,         \* the call just made, its arguments and the state it started from
  mColorStops,  \* QCPColorGradient::mColorStops, position -> colour
  mLevelCount,  \* QCPColorGradient::mLevelCount
  mColorInterpolation, \* QCPColorGradient::mColorInterpolation
  mPeriodic,    \* QCPColorGradient::mPeriodic
  mColorBuffer, \* QCPColorGradient::mColorBuffer
  mColorBufferInvalidated, \* QCPColorGradient::mColorBufferInvalidated
  glast         \* the call just made on the gradient and what it returned

sizeVars == <<mBaseValue, mWidth, mWidthType, mSpacing, mSpacingType>>
barsVars == <<alive, keyAxis, valueAxis, mBarBelow, mBarAbove, mBarsGroup,
              mDataContainer, groupAlive, mBars, sizeVars>>
gradVars == <<mColorStops, mLevelCount, mColorInterpolation, mPeriodic,
              mColorBuffer, mColorBufferInvalidated>>
vars == <<barsVars, last, gradVars, glast>>

(***************************************************************************)
(* Sequence helpers (QList operations used by QCPBarsGroup)                *)
(***************************************************************************)
Range(s) == {s[k] : k \in 1..Len(s)}

\* QList::contains
Contains(s, x) == x \in Range(s)

\* QList::indexOf, 0-based, -1 when absent
IndexOf(s, x) ==
  IF Contains(s, x) THEN (CHOOSE k \in 1..Len(s) : s[k] = x /\ \A j \in 1..(k-1) : s[j] # x) - 1
  ELSE -1

\* QList::removeOne: removes the first occurrence
RemoveOne(s, x) ==
  IF Contains(s, x)
  THEN LET k == IndexOf(s, x) + 1
       IN SubSeq(s, 1, k-1) \o SubSeq(s, k+1, Len(s))
  ELSE s

\* QList::move(from, to), 0-based indices, both valid
ListMove(s, from, to) ==
  LET x == s[from+1]
      r == SubSeq(s, 1, from) \o SubSeq(s, from+2, Len(s))
  IN SubSeq(r, 1, to) \o <<x>> \o SubSeq(r, to+1, Len(r))

\* qBound(min, val, max)
qBound(lo, v, hi) == IF v < lo THEN lo ELSE IF v > hi THEN hi ELSE v

(***************************************************************************)
(* Stack linkage: QCPBars::connectBars, moveBelow, moveAbove               *)
(* A link state is a record [below, above] of the two pointer fields.      *)
(***************************************************************************)
Links == [below |-> mBarBelow, above |-> mBarAbove]

\* connectBars without the disconnection of the old neighbours when connecting
connectBars_keepOld(st, lower, upper) ==
  IF lower = NoBar /\ upper = NoBar THEN st
  ELSE IF lower = NoBar THEN
    LET ub == st.below[upper]
        above1 == IF ub # NoBar /\ st.above[ub] = upper
                  THEN [st.above EXCEPT ![ub] = NoBar] ELSE st.above
    IN [below |-> [st.below EXCEPT ![upper] = NoBar], above |-> above1]
  ELSE IF upper = NoBar THEN
    LET la == st.above[lower]
        below1 == IF la # NoBar /\ st.below[la] = lower
                  THEN [st.below EXCEPT ![la] = NoBar] ELSE st.below
    IN [below |-> below1, above |-> [st.above EXCEPT ![lower] = NoBar]]
  ELSE
    [below |-> [st.below EXCEPT ![upper] = lower],
     above |-> [st.above EXCEPT ![lower] = upper]]

\* connectBars that, disconnecting lower at the top, leaves lower's own pointer
connectBars_keepTop(st, lower, upper) ==
  IF lower = NoBar /\ upper = NoBar THEN st
  ELSE IF lower = NoBar THEN
    LET ub == st.below[upper]
        above1 == IF ub # NoBar /\ st.above[ub] = upper
                  THEN [st.above EXCEPT ![ub] = NoBar] ELSE st.above
    IN [below |-> [st.below EXCEPT ![upper] = NoBar], above |-> above1]
  ELSE IF upper = NoBar THEN
    LET la == st.above[lower]
        below1 == IF la # NoBar /\ st.below[la] = lower
                  THEN [st.below EXCEPT ![la] = NoBar] ELSE st.below
    IN [below |-> below1, above |-> st.above]
  ELSE
    LET la == st.above[lower]
        below1 == IF la # NoBar /\ st.below[la] = lower
                  THEN [st.below EXCEPT ![la] = NoBar] ELSE st.below
        ub == below1[upper]
        above1 == IF ub # NoBar /\ st.above[ub] = upper
                  THEN [st.above EXCEPT ![ub] = NoBar] ELSE st.above
    IN [below |-> [below1 EXCEPT ![upper] = lower],
        above |-> [above1 EXCEPT ![lower] = upper]]

connectBars(st, lower, upper) ==
  IF lower = NoBar /\ upper = NoBar THEN st
  ELSE IF lower = NoBar THEN
    \* disconnect upper at bottom
    LET ub == st.below[upper]
        above1 == IF ub # NoBar /\ st.above[ub] = upper
                  THEN [st.above EXCEPT ![ub] = NoBar] ELSE st.above
    IN [below |-> [st.below EXCEPT ![upper] = NoBar], above |-> above1]
  ELSE IF upper = NoBar THEN
    \* disconnect lower at top
    LET la == st.above[lower]
        below1 == IF la # NoBar /\ st.below[la] = lower
                  THEN [st.below EXCEPT ![la] = NoBar] ELSE st.below
    IN [below |-> below1, above |-> [st.above EXCEPT ![lower] = NoBar]]
  ELSE
    \* connect lower and upper
    LET la == st.above[lower]
        below1 == IF la # NoBar /\ st.below[la] = lower
                  THEN [st.below EXCEPT ![la] = NoBar] ELSE st.below
        ub == below1[upper]
        above1 == IF ub # NoBar /\ st.above[ub] = upper
                  THEN [st.above EXCEPT ![ub] = NoBar] ELSE st.above
    IN [below |-> [below1 EXCEPT ![upper] = lower],
        above |-> [above1 EXCEPT ![lower] = upper]]

SameAxes(a, b) == keyAxis[b] = keyAxis[a] /\ valueAxis[b] = valueAxis[a]

\* moveBelow that does not splice in the series below the target
moveBelowLinks_noSplice(st, a, b) ==
  IF b = a THEN st
  ELSE IF b # NoBar /\ ~SameAxes(a, b) THEN st
  ELSE
    LET st1 == connectBars(st, st.below[a], st.above[a])
    IN IF b # NoBar THEN connectBars(st1, a, b) ELSE st1

\* moveBelow that checks the axes only after taking this series out of its stack
moveBelowLinks_lateCheck(st, a, b) ==
  IF b = a THEN st
  ELSE
    LET st1 == connectBars(st, st.below[a], st.above[a])
    IN IF b # NoBar /\ ~SameAxes(a, b) THEN st1
       ELSE IF b # NoBar
       THEN LET st2 == IF st1.below[b] # NoBar
                       THEN connectBars(st1, st1.below[b], a) ELSE st1
            IN connectBars(st2, a, b)
       ELSE st1

\* the link state QCPBars::moveBelow leaves, this = a, bars = b
moveBelowLinks(st, a, b) ==
  IF b = a THEN st
  ELSE IF b # NoBar /\ ~SameAxes(a, b) THEN st
  ELSE
    LET st1 == connectBars(st, st.below[a], st.above[a])
    IN IF b # NoBar
       THEN LET st2 == IF st1.below[b] # NoBar
                       THEN connectBars(st1, st1.below[b], a) ELSE st1
            IN connectBars(st2, a, b)
       ELSE st1

\* moveAbove that does not splice in the series above the target
moveAboveLinks_noSplice(st, a, b) ==
  IF b = a THEN st
  ELSE IF b # NoBar /\ ~SameAxes(a, b) THEN st
  ELSE
    LET st1 == connectBars(st, st.below[a], st.above[a])
    IN IF b # NoBar THEN connectBars(st1, b, a) ELSE st1

\* the link state QCPBars::moveAbove leaves, this = a, bars = b
moveAboveLinks(st, a, b) ==
  IF b = a THEN st
  ELSE IF b # NoBar /\ ~SameAxes(a, b) THEN st
  ELSE
    LET st1 == connectBars(st, st.below[a], st.above[a])
    IN IF b # NoBar
       THEN LET st2 == IF st1.above[b] # NoBar
                       THEN connectBars(st1, a, st1.above[b]) ELSE st1
            IN connectBars(st2, b, a)
       ELSE st1

(***************************************************************************)
(* Group membership: QCPBarsGroup::registerBars, unregisterBars and        *)
(* QCPBars::setBarsGroup.  A membership state is a record [group, bars].   *)
(***************************************************************************)
Membership == [group |-> mBarsGroup, bars |-> mBars]

registerBars(ms, g, s) ==
  IF ~Contains(ms.bars[g], s)
  THEN [ms EXCEPT !.bars[g] = Append(ms.bars[g], s)] ELSE ms

unregisterBars(ms, g, s) == [ms EXCEPT !.bars[g] = RemoveOne(ms.bars[g], s)]

\* setBarsGroup without the deregistration at the old group
setBarsGroupM_noUnregister(ms, s, g) ==
  LET ms2 == [ms EXCEPT !.group[s] = g]
  IN IF g # NoGroup THEN registerBars(ms2, g, s) ELSE ms2

setBarsGroupM(ms, s, g) ==
  LET ms1 == IF ms.group[s] # NoGroup THEN unregisterBars(ms, ms.group[s], s) ELSE ms
      ms2 == [ms1 EXCEPT !.group[s] = g]
  IN IF g # NoGroup THEN registerBars(ms2, g, s) ELSE ms2

\* QCPBarsGroup::clear: foreach over a copy of mBars
RECURSIVE clearFrom(_, _)
clearFrom(ms, copy) ==
  IF copy = <<>> THEN ms
  ELSE clearFrom(setBarsGroupM(ms, Head(copy), NoGroup), Tail(copy))

\* clear iterating over the list it is shrinking: every second member is skipped
RECURSIVE clearSkipping(_, _)
clearSkipping(ms, copy) ==
  IF copy = <<>> THEN ms
  ELSE clearSkipping(setBarsGroupM(ms, Head(copy), NoGroup),
                     IF Len(copy) > 1 THEN Tail(Tail(copy)) ELSE <<>>)

clearM_live(ms, g) == clearSkipping(ms, ms.bars[g])

clearM(ms, g) == clearFrom(ms, ms.bars[g])

appendM(ms, g, s) ==
  IF s = NoBar THEN ms
  ELSE IF ~Contains(ms.bars[g], s) THEN setBarsGroupM(ms, s, g)
  ELSE ms

\* insert that moves the series only when it was a member already
insertM_appendOnly(ms, g, i, s) ==
  IF s = NoBar THEN ms
  ELSE IF ~Contains(ms.bars[g], s) THEN setBarsGroupM(ms, s, g)
  ELSE LET l == ms.bars[g]
       IN [ms EXCEPT !.bars[g] = ListMove(l, IndexOf(l, s), qBound(0, i, Len(l) - 1))]

insertM(ms, g, i, s) ==
  IF s = NoBar THEN ms
  ELSE
    LET ms1 == IF ~Contains(ms.bars[g], s) THEN setBarsGroupM(ms, s, g) ELSE ms
        l == ms1.bars[g]
    IN [ms1 EXCEPT !.bars[g] = ListMove(l, IndexOf(l, s), qBound(0, i, Len(l) - 1))]

removeM(ms, g, s) ==
  IF s = NoBar THEN ms
  ELSE IF Contains(ms.bars[g], s) THEN setBarsGroupM(ms, s, NoGroup)
  ELSE ms

(***************************************************************************)
(* Colour gradient: QCPColorGradient                                       *)
(* A colour is the triple <<red, green, blue>> of a QRgb, each 0..255.  A  *)
(* stop position is a whole number of 1/PosDen, so that the positions of   *)
(* the presets (hundredths and thirds) are exact; the level positions      *)
(* i/(levelCount-1) are compared with them as fractions.                   *)
(***************************************************************************)
PosDen == 3 * 100

Black == <<0, 0, 0>>
White == <<255, 255, 255>>
Red == <<255, 0, 0>>

Min(S) == CHOOSE x \in S : \A y \in S : x <= y
Max(S) == CHOOSE x \in S : \A y \in S : x >= y

\* conversion of a double to int: truncation towards zero (d > 0)
TruncDiv(n, d) == IF n >= 0 THEN n \div d ELSE 0 - ((0 - n) \div d)
\* the C++ operator %, whose sign is the sign of the dividend (m > 0)
CMod(a, m) == a - m * TruncDiv(a, m)
\* qRound of the non-negative fraction n/d
RoundDiv(n, d) == (2 * n + d) \div (2 * d)

\* round(a * b / c) for 0 <= a, 0 <= b <= c, by long multiplication over the
\* binary digits of a; the pair is <<quotient, remainder>> of a * b by c
RECURSIVE MulDivQR(_, _, _)
MulDivQR(a, b, c) ==
  IF a = 0 THEN <<0, 0>>
  ELSE LET h == MulDivQR(a \div 2, b, c)
           r == 2 * h[2] + (IF a % 2 = 1 THEN b ELSE 0)
       IN <<2 * h[1] + r \div c, r % c>>

MulDivRound(a, b, c) ==
  LET qr == MulDivQR(a, b, c)
  IN IF 2 * qr[2] >= c THEN qr[1] + 1 ELSE qr[1]

USHRT_MAX == 65535
\* a QColor channel is kept in 16 bits: the 8 bit value times 0x101
HueUndefined == USHRT_MAX

\* QColor::toHsv of an RGB colour: [hue, saturation, value] as QColor stores
\* them, hue in hundredths of a degree or HueUndefined for a grey
toHsv(c) ==
  LET mx == Max({c[1], c[2], c[3]})
      mn == Min({c[1], c[2], c[3]})
      delta == mx - mn
      sixth == IF c[1] = mx THEN 6000 * (c[2] - c[3])
               ELSE IF c[2] = mx THEN 6000 * (2 * delta + (c[3] - c[1]))
               ELSE 6000 * (4 * delta + (c[1] - c[2]))
      hueNum == IF sixth < 0 THEN sixth + 36000 * delta ELSE sixth
  IN IF delta = 0
     THEN [hue |-> HueUndefined, saturation |-> 0, value |-> 257 * mx]
     ELSE [hue |-> RoundDiv(hueNum, delta),
           saturation |-> RoundDiv(USHRT_MAX * delta, mx),
           value |-> 257 * mx]

\* QColor::hueF times 36000
hueF36000(hsv) == IF hsv.hue = HueUndefined THEN 0 - 36000 ELSE hsv.hue

\* QColor::toRgb of an HSV colour followed by QColor::rgb
hsvToRgb(hue, sat, val) ==
  IF sat = 0 \/ hue = HueUndefined
  THEN <<val \div 256, val \div 256, val \div 256>>
  ELSE
    LET h == IF hue = 36000 THEN 0 ELSE hue
        i == h \div 6000
        f == h % 6000
        full == USHRT_MAX * 6000
        v == val
        p == MulDivRound(val, USHRT_MAX - sat, USHRT_MAX)
        q == MulDivRound(val, full - sat * f, full)
        t == MulDivRound(val, full - sat * (6000 - f), full)
        rgb16 == CASE i = 0 -> <<v, t, p>>
                   [] i = 1 -> <<q, v, p>>
                   [] i = 2 -> <<p, v, t>>
                   [] i = 3 -> <<p, q, v>>
                   [] i = 4 -> <<t, p, v>>
                   [] OTHER -> <<v, p, q>>
    IN <<rgb16[1] \div 256, rgb16[2] \div 256, rgb16[3] \div 256>>

(***************************************************************************)
(* Double arithmetic.  The code computes positions, interpolation factors  *)
(* and indices in IEEE-754 doubles; a double is modelled bit for bit as    *)
(* m * 2^e with a 53 bit mantissa m, and each operation rounds its exact   *)
(* result to the nearest double, ties to even.  The mantissa is a natural  *)
(* number kept as a little-endian sequence of limbs below LimbBase without *)
(* leading zero limbs.  Only non-negative values occur.                    *)
(***************************************************************************)
LimbBits == 15
LimbBase == 2^LimbBits
MantissaBits == 53

RECURSIVE NatNorm(_)
NatNorm(a) ==
  IF a # <<>> /\ a[Len(a)] = 0 THEN NatNorm(SubSeq(a, 1, Len(a) - 1)) ELSE a

RECURSIVE NatFromInt(_)
NatFromInt(n) ==
  IF n = 0 THEN <<>> ELSE <<n % LimbBase>> \o NatFromInt(n \div LimbBase)

RECURSIVE NatToInt(_)
NatToInt(a) == IF a = <<>> THEN 0 ELSE a[1] + LimbBase * NatToInt(Tail(a))

Limb(a, i) == IF i <= Len(a) THEN a[i] ELSE 0

RECURSIVE AddFrom(_, _, _, _)
AddFrom(a, b, i, carry) ==
  IF i > Len(a) /\ i > Len(b) THEN (IF carry = 0 THEN <<>> ELSE <<carry>>)
  ELSE LET s == Limb(a, i) + Limb(b, i) + carry
       IN <<s % LimbBase>> \o AddFrom(a, b, i + 1, s \div LimbBase)

NatAdd(a, b) == AddFrom(a, b, 1, 0)

RECURSIVE SubFrom(_, _, _, _)
SubFrom(a, b, i, borrow) ==
  IF i > Len(a) THEN <<>>
  ELSE LET d == a[i] - Limb(b, i) - borrow
       IN IF d < 0 THEN <<d + LimbBase>> \o SubFrom(a, b, i + 1, 1)
          ELSE <<d>> \o SubFrom(a, b, i + 1, 0)

\* a - b for a >= b
NatSub(a, b) == NatNorm(SubFrom(a, b, 1, 0))

RECURSIVE CmpFrom(_, _, _)
CmpFrom(a, b, i) ==
  IF i = 0 THEN 0
  ELSE IF a[i] < b[i] THEN 0 - 1
  ELSE IF a[i] > b[i] THEN 1
  ELSE CmpFrom(a, b, i - 1)

\* -1, 0, 1 as a < b, a = b, a > b
NatCmp(a, b) ==
  IF Len(a) < Len(b) THEN 0 - 1
  ELSE IF Len(a) > Len(b) THEN 1
  ELSE CmpFrom(a, b, Len(a))

RECURSIVE MulSmallFrom(_, _, _, _)
MulSmallFrom(a, s, i, carry) ==
  IF i > Len(a) THEN (IF carry = 0 THEN <<>> ELSE <<carry>>)
  ELSE LET p == a[i] * s + carry
       IN <<p % LimbBase>> \o MulSmallFrom(a, s, i + 1, p \div LimbBase)

\* a * s for 0 <= s <= LimbBase
NatMulSmall(a, s) == IF s = 0 THEN <<>> ELSE MulSmallFrom(a, s, 1, 0)

NatShlLimbs(a, k) == IF a = <<>> THEN <<>> ELSE [i \in 1..k |-> 0] \o a

RECURSIVE MulFrom(_, _, _)
MulFrom(a, b, i) ==
  IF i > Len(b) THEN <<>>
  ELSE NatAdd(NatShlLimbs(NatMulSmall(a, b[i]), i - 1), MulFrom(a, b, i + 1))

NatMul(a, b) == MulFrom(a, b, 1)

\* a * 2^k
NatShl(a, k) == NatShlLimbs(NatMulSmall(a, 2^(k % LimbBits)), k \div LimbBits)

\* a \div 2^k
NatShrBits(b, r) ==
  NatNorm([i \in 1..Len(b) |->
             b[i] \div 2^r + (Limb(b, i + 1) % 2^r) * 2^(LimbBits - r)])

NatShr(a, k) ==
  NatShrBits(IF k \div LimbBits >= Len(a) THEN <<>>
             ELSE SubSeq(a, k \div LimbBits + 1, Len(a)),
             k % LimbBits)

\* a % 2^k
NatLow(a, k) == NatSub(a, NatShl(NatShr(a, k), k))

RECURSIVE IntBitLen(_)
IntBitLen(n) == IF n = 0 THEN 0 ELSE 1 + IntBitLen(n \div 2)

NatBitLen(a) ==
  IF a = <<>> THEN 0 ELSE LimbBits * (Len(a) - 1) + IntBitLen(a[Len(a)])

NatIsOdd(a) == a # <<>> /\ a[1] % 2 = 1

DZero == [m |-> <<>>, e |-> 0]

\* the mantissa q rounded up may have grown to 54 bits
DRoundCarry(q, e) ==
  IF NatBitLen(q) > MantissaBits THEN [m |-> NatShr(q, 1), e |-> e + 1]
  ELSE [m |-> q, e |-> e]

\* q * 2^e plus a dropped part that compares as c (-1, 0, 1) with half a unit
\* of q: to the nearest, ties to even
DRoundNearest(q, c, sticky, e) ==
  DRoundCarry(IF c > 0 \/ (c = 0 /\ (sticky \/ NatIsOdd(q))) THEN NatAdd(q, <<1>>) ELSE q,
              e)

\* N of bl bits to a mantissa of 53 bits
DRoundBits(N, e, sticky, bl) ==
  IF bl <= MantissaBits
  THEN [m |-> NatShl(N, MantissaBits - bl), e |-> e - (MantissaBits - bl)]
  ELSE DRoundNearest(NatShr(N, bl - MantissaBits),
                     NatCmp(NatLow(N, bl - MantissaBits),
                            NatShl(<<1>>, bl - MantissaBits - 1)),
                     sticky, e + bl - MantissaBits)

\* the double nearest to N * 2^e, or to a value just above it when sticky
DRound(N, e, sticky) ==
  IF N = <<>> THEN DZero ELSE DRoundBits(N, e, sticky, NatBitLen(N))

\* conversion of an int n >= 0 to double
DFromInt(n) == DRound(NatFromInt(n), 0, FALSE)

\* conversion of a double to int: truncation
DTrunc(x) ==
  IF x.e >= 0 THEN NatToInt(NatShl(x.m, x.e)) ELSE NatToInt(NatShr(x.m, 0 - x.e))

DCmp(x, y) ==
  IF x.m = <<>> \/ y.m = <<>> THEN NatCmp(x.m, y.m)
  ELSE IF x.e < y.e THEN 0 - 1
  ELSE IF x.e > y.e THEN 1
  ELSE NatCmp(x.m, y.m)

\* the mantissa of x at the exponent e <= x.e
DAligned(x, e) == NatShl(x.m, x.e - e)

DAddAt(x, y, e) == DRound(NatAdd(DAligned(x, e), DAligned(y, e)), e, FALSE)

DAdd(x, y) == DAddAt(x, y, IF x.e < y.e THEN x.e ELSE y.e)

DSubAt(x, y, e) == DRound(NatSub(DAligned(x, e), DAligned(y, e)), e, FALSE)

\* x - y for x >= y
DSub(x, y) == DSubAt(x, y, IF x.e < y.e THEN x.e ELSE y.e)

DMul(x, y) == DRound(NatMul(x.m, y.m), x.e + y.e, FALSE)

\* k more limbs of the quotient of a division by d that has left r < d, d a
\* number of four limbs with the top bit set: <<those limbs, the remainder>>
RECURSIVE DivLimbs(_, _, _)

\* the quotient limb of r1 by d, at most top and at least top - 2
DivLimb(r1, d, top) ==
  CHOOSE c \in {x \in (top - 2)..top : x >= 0} :
    /\ NatCmp(NatMulSmall(d, c), r1) <= 0
    /\ NatCmp(NatMulSmall(d, c + 1), r1) > 0

DivPrepend(limb, rest) == <<rest[1] \o <<limb>>, rest[2]>>

DivStep(r1, d, k, limb) ==
  DivPrepend(limb, DivLimbs(NatSub(r1, NatMulSmall(d, limb)), d, k - 1))

DivGuess(r1, d, k, guess) ==
  DivStep(r1, d, k, DivLimb(r1, d, IF guess >= LimbBase THEN LimbBase - 1 ELSE guess))

DivShifted(r1, d, k) ==
  DivGuess(r1, d, k, (Limb(r1, 5) * LimbBase + Limb(r1, 4)) \div d[4])

DivLimbs(r, d, k) ==
  IF k = 0 THEN <<<<>>, r>> ELSE DivShifted(NatShlLimbs(r, 1), d, k)

\* the quotient qr[1] with its leading limb and the remainder qr[2], rounded
DDivRound(qr, lead, e) == DRound(NatNorm(qr[1] \o <<lead>>), e, qr[2] # <<>>)

\* n / d * 2^e for mantissas n, d shifted to four limbs
DDivMantissas(n, d, e, ge) ==
  DDivRound(DivLimbs(IF ge THEN NatSub(n, d) ELSE n, d, 4), IF ge THEN 1 ELSE 0, e)

DDivShifted(n, d, e) == DDivMantissas(n, d, e, NatCmp(n, d) >= 0)

\* x / y for y > 0
DDiv(x, y) ==
  IF x.m = <<>> THEN DZero
  ELSE DDivShifted(NatShl(x.m, 4 * LimbBits - MantissaBits),
                   NatShl(y.m, 4 * LimbBits - MantissaBits), x.e - y.e - 4 * LimbBits)

DOne == DFromInt(1)

\* the double a stop position of k/PosDen is: the literals of loadPreset such
\* as 0.45 and its quotients 1.0/3.0, 2.0/3.0 are the doubles nearest to them
positionDouble(k) == DDiv(DFromInt(k), DFromInt(PosDen))
PositionDoubles == [k \in 0..PosDen |-> positionDouble(k)]

\* position = i*indexToPosFactor, indexToPosFactor = 1.0/(double)(mLevelCount-1)
levelPosition(n, i) == DMul(DFromInt(i), DDiv(DOne, DFromInt(n - 1)))

\* t = (position-low.key())/(high.key()-low.key())
interpolationFactor(position, lowKey, highKey) ==
  DDiv(DSub(position, lowKey), DSub(highKey, lowKey))

\* the ciRGB case: each channel (1-t)*low + t*high, a double, converted to the
\* int that qRgb takes
interpolateChannel_roundUp(lowChannel, highChannel, t) ==
  DTrunc(DAdd(DMul(DSub(DOne, t), DFromInt(lowChannel)), DMul(t, DFromInt(highChannel)))) + 1

interpolateChannel(lowChannel, highChannel, t) ==
  DTrunc(DAdd(DMul(DSub(DOne, t), DFromInt(lowChannel)), DMul(t, DFromInt(highChannel))))

\* red, green and blue, each as interpolateChannel gives it
interpolateRgb(low, high, t) ==
  SubSeq([channel \in 1..3 |-> interpolateChannel(low[channel], high[channel], t)], 1, 3)

\* the hue of the ciHSV case, times 36000 * td, wrapped as the code wraps it
interpolateHue_direct(lowHue, highHue, tn, td) ==
  lowHue * td + tn * (highHue - lowHue)

\* the hue of the ciHSV case for t = tn/td, hues in steps of 1/36000 as
\* QColor::hueF gives them; the result is the numerator over 36000*td
interpolateHue(lowHue, highHue, tn, td) ==
  LET hueDiff == highHue - lowHue
      hue == IF hueDiff > 18000 THEN lowHue * td - tn * (36000 - hueDiff)
             ELSE IF hueDiff < 0 - 18000 THEN lowHue * td + tn * (36000 + hueDiff)
             ELSE lowHue * td + tn * hueDiff
  IN IF hue < 0 THEN hue + 36000 * td
     ELSE IF hue >= 36000 * td THEN hue - 36000 * td
     ELSE hue

\* the ciHSV case: QColor::fromHsvF(hue, saturation, value).rgb()
interpolateHsv(low, high, tn, td) ==
  LET lowHsv == toHsv(low)
      highHsv == toHsv(high)
      hue == interpolateHue(hueF36000(lowHsv), hueF36000(highHsv), tn, td)
      sat == (td - tn) * lowHsv.saturation + tn * highHsv.saturation
      val == (td - tn) * lowHsv.value + tn * highHsv.value
  IN IF hue < 0 \/ hue > 36000 * td
     THEN Black  \* fromHsvF rejects the hue and returns an invalid colour
     ELSE hsvToRgb(RoundDiv(hue, td), RoundDiv(sat, td), RoundDiv(val, td))

\* the colour of a slot between the stops low and high
interpolatedColor(stops, mode, n, i, position, low, high) ==
  IF mode = "ciRGB"
  THEN interpolateRgb(stops[low], stops[high],
                      interpolationFactor(position, PositionDoubles[low], PositionDoubles[high]))
  ELSE interpolateHsv(stops[low], stops[high],
                      i * PosDen - low * (n - 1), (high - low) * (n - 1))

\* the colour of a slot from what QMap::lowerBound(position) finds: notBefore
\* is the set of the stops at or after the position
colorAtBound(stops, mode, n, i, position, notBefore) ==
  IF notBefore = {} THEN stops[Max(DOMAIN stops)]
  ELSE IF Min(notBefore) = Min(DOMAIN stops) THEN stops[Min(DOMAIN stops)]
  ELSE interpolatedColor(stops, mode, n, i, position,
                         Max({k \in DOMAIN stops : k < Min(notBefore)}), Min(notBefore))

\* the colour updateColorBuffer gives the slot i (0-based) of n levels.  The
\* position, the search for the stops around it and the factor t are computed
\* in doubles.  The ciHSV case goes through QColor, which rounds the hue, the
\* saturation and the value to the nearest of its 16 bit steps, so that an
\* error of the last bit of t does not show; it is given t as the fraction
\* tn/td.
\* The slot lies at position: QMap::lowerBound(position) on the stops.
colorAtPosition(stops, mode, n, i, position) ==
  colorAtBound(stops, mode, n, i, position,
               {k \in DOMAIN stops : DCmp(PositionDoubles[k], position) >= 0})

\* for (int i=0; i<mLevelCount; ++i): the colour of the slot i
levelColor(stops, mode, n, i) == colorAtPosition(stops, mode, n, i, levelPosition(n, i))

\* the buffer QCPColorGradient::updateColorBuffer leaves
updateColorBuffer(stops, mode, n) ==
  IF Cardinality(DOMAIN stops) > 1
  THEN [i \in 1..n |-> levelColor(stops, mode, n, i - 1)]
  ELSE IF Cardinality(DOMAIN stops) = 1
  THEN [i \in 1..n |-> stops[Min(DOMAIN stops)]]
  ELSE [i \in 1..n |-> Black]

\* the presets of QCPColorGradient::loadPreset
Stop(hundredths, r, g, b) == <<3 * hundredths, <<r, g, b>>>>
StopsOf(pairs) == [k \in {pr[1] : pr \in pairs} |-> (CHOOSE pr \in pairs : pr[1] = k)[2]]

PresetNames == {"gpGrayscale", "gpHot", "gpCold", "gpNight", "gpCandy", "gpGeography",
                "gpIon", "gpThermal", "gpPolar", "gpSpectrum", "gpJet", "gpHues"}

PresetInterpolation(preset) ==
  IF preset \in {"gpNight", "gpCandy", "gpIon", "gpSpectrum", "gpHues"}
  THEN "ciHSV" ELSE "ciRGB"

PresetStops(preset) ==
  CASE preset = "gpGrayscale" ->
         StopsOf({Stop(0, 0, 0, 0), Stop(100, 255, 255, 255)})
    [] preset = "gpHot" ->
         StopsOf({Stop(0, 50, 0, 0), Stop(20, 180, 10, 0), Stop(40, 245, 50, 0),
                  Stop(60, 255, 150, 10), Stop(80, 255, 255, 50), Stop(100, 255, 255, 255)})
    [] preset = "gpCold" ->
         StopsOf({Stop(0, 0, 0, 50), Stop(20, 0, 10, 180), Stop(40, 0, 50, 245),
                  Stop(60, 10, 150, 255), Stop(80, 50, 255, 255), Stop(100, 255, 255, 255)})
    [] preset = "gpNight" ->
         StopsOf({Stop(0, 10, 20, 30), Stop(100, 250, 255, 250)})
    [] preset = "gpCandy" ->
         StopsOf({Stop(0, 0, 0, 255), Stop(100, 255, 250, 250)})
    [] preset = "gpGeography" ->
         StopsOf({Stop(0, 70, 170, 210), Stop(20, 90, 160, 180), Stop(25, 45, 130, 175),
                  Stop(30, 100, 140, 125), Stop(50, 100, 140, 100), Stop(60, 130, 145, 120),
                  Stop(70, 140, 130, 120), Stop(90, 180, 190, 190), Stop(100, 210, 210, 230)})
    [] preset = "gpIon" ->
         StopsOf({Stop(0, 50, 10, 10), Stop(45, 0, 0, 255), Stop(80, 0, 255, 255),
                  Stop(100, 0, 255, 0)})
    [] preset = "gpThermal" ->
         StopsOf({Stop(0, 0, 0, 50), Stop(15, 20, 0, 120), Stop(33, 200, 30, 140),
                  Stop(60, 255, 100, 0), Stop(85, 255, 255, 40), Stop(100, 255, 255, 255)})
    [] preset = "gpPolar" ->
         StopsOf({Stop(0, 50, 255, 255), Stop(18, 10, 70, 255), Stop(28, 10, 10, 190),
                  Stop(50, 0, 0, 0), Stop(72, 190, 10, 10), Stop(82, 255, 70, 10),
                  Stop(100, 255, 255, 50)})
    [] preset = "gpSpectrum" ->
         StopsOf({Stop(0, 50, 0, 50), Stop(15, 0, 0, 255), Stop(35, 0, 255, 255),
                  Stop(60, 255, 255, 0), Stop(75, 255, 30, 0), Stop(100, 50, 0, 0)})
    [] preset = "gpJet" ->
         StopsOf({Stop(0, 0, 0, 100), Stop(15, 0, 50, 255), Stop(35, 0, 255, 255),
                  Stop(65, 255, 255, 0), Stop(85, 255, 30, 0), Stop(100, 100, 0, 0)})
    [] OTHER ->
         StopsOf({Stop(0, 255, 0, 0), <<100, <<0, 0, 255>>>>, <<200, <<0, 255, 0>>>>,
                  Stop(100, 255, 0, 0)})

\* the index of the buffer entry QCPColorGradient::color reads; the linear
\* case takes the range [lower, upper], the logarithmic case takes
\* position/lower = 2^posExp and upper/lower = 2^rangeExp as exponents
linearIndex_fromUpper(position, lower, upper, n) ==
  IF upper > lower THEN TruncDiv((upper - position) * (n - 1), upper - lower)
  ELSE TruncDiv((position - upper) * (n - 1), lower - upper)

\* color: (position-range.lower)*(mLevelCount-1)/range.size() converted to
\* int.  The product is a whole number, and the double nearest to the quotient
\* of two whole numbers below 2^31 has the whole part of that quotient.
linearIndex(position, lower, upper, n) ==
  IF upper > lower THEN TruncDiv((position - lower) * (n - 1), upper - lower)
  ELSE TruncDiv((lower - position) * (n - 1), lower - upper)

\* colorize: posToIndexFactor = (mLevelCount-1)/range.size(), a double, then
\* (data-range.lower)*posToIndexFactor converted to int; offset is
\* data-range.lower and size is range.size()
scaledIndex(offset, size, n) ==
  LET magnitude ==
        DTrunc(DMul(DFromInt(IF offset < 0 THEN 0 - offset ELSE offset),
                    DDiv(DFromInt(n - 1), DFromInt(IF size < 0 THEN 0 - size ELSE size))))
  IN IF (offset < 0) # (size < 0) THEN 0 - magnitude ELSE magnitude

logIndex(posExp, rangeExp, n) ==
  IF rangeExp > 0 THEN TruncDiv(posExp * (n - 1), rangeExp)
  ELSE TruncDiv((0 - posExp) * (n - 1), 0 - rangeExp)

bufferIndex_mirrored(raw, periodic, n) ==
  IF periodic
  THEN LET index == CMod(raw, n) IN IF index < 0 THEN 0 - index ELSE index
  ELSE IF raw < 0 THEN 0 ELSE IF raw >= n THEN n - 1 ELSE raw

bufferIndex(raw, periodic, n) ==
  IF periodic
  THEN LET index == CMod(raw, n) IN IF index < 0 THEN index + n ELSE index
  ELSE IF raw < 0 THEN 0 ELSE IF raw >= n THEN n - 1 ELSE raw

(***************************************************************************)
(* Initial states                                                          *)
(***************************************************************************)
KeyAxes == {"xAxis", "xAxis2"}
ValueAxes == {"yAxis", "yAxis2"}

\* series 1..k sit on the default axes, the others on one other axis pair
AxisLayouts ==
  { [s \in Bars |-> IF s <= k THEN <<"xAxis", "yAxis">> ELSE alt] :
      k \in Bars, alt \in (KeyAxes \X ValueAxes) \ {<<"xAxis", "yAxis">>} }

EmptyData == [s \in Bars |-> <<>>]
SampleData == [s \in Bars |-> <<[key |-> 1, value |-> s]>>]

NoCall == [op |-> "none", a |-> NoBar, b |-> NoBar, g |-> NoGroup, i |-> 0,
           preAlive |-> Bars, preGroupAlive |-> Groups,
           preBelow |-> [s \in Bars |-> NoBar], preAbove |-> [s \in Bars |-> NoBar],
           preGroup |-> [s \in Bars |-> NoGroup], preBars |-> [g \in Groups |-> <<>>],
           preData |-> EmptyData, preBase |-> [s \in Bars |-> 0],
           keys |-> <<>>, values |-> <<>>, result |-> <<>>]

Call(op, a, b, g, i) ==
  [op |-> op, a |-> a, b |-> b, g |-> g, i |-> i,
   preAlive |-> alive, preGroupAlive |-> groupAlive,
   preBelow |-> mBarBelow, preAbove |-> mBarAbove,
   preGroup |-> mBarsGroup, preBars |-> mBars, preData |-> mDataContainer,
   preBase |-> mBaseValue, keys |-> <<>>, values |-> <<>>, result |-> <<>>]

\* widths and spacings are counted in quarters: 3 is 0.75, 16 is 4
SizeDen == 4

\* QCPBars(keyAxis, valueAxis) and QCPBarsGroup(parentPlot): the base value,
\* the width and the spacing the constructors set
SizesConstructed ==
  /\ mBaseValue = [s \in Bars |-> 0]
  /\ mWidth = [s \in Bars |-> 3]
  /\ mWidthType = [s \in Bars |-> "wtPlotCoords"]
  /\ mSpacing = [g \in Groups |-> 4 * SizeDen]
  /\ mSpacingType = [g \in Groups |-> "stAbsolute"]

\* stacking only: every series constructed, nothing linked, nothing grouped
StackConstructed ==
  /\ SizesConstructed
  /\ alive = Bars
  /\ \E lay \in AxisLayouts :
       /\ keyAxis = [s \in Bars |-> lay[s][1]]
       /\ valueAxis = [s \in Bars |-> lay[s][2]]
  /\ mBarBelow = [s \in Bars |-> NoBar]
  /\ mBarAbove = [s \in Bars |-> NoBar]
  /\ mBarsGroup = [s \in Bars |-> NoGroup]
  /\ mDataContainer = EmptyData
  /\ groupAlive = Groups
  /\ mBars = [g \in Groups |-> <<>>]
  /\ last = NoCall

\* the series constructed where group membership is exercised
Members == {s \in Bars : s <= NumMembers}

\* the members stacked 1 (bottom), 2, ... by successive moveAbove calls
ChainBelow == [s \in Bars |-> IF s \in Members /\ s > 1 THEN s - 1 ELSE NoBar]
ChainAbove == [s \in Bars |-> IF s \in Members /\ s + 1 \in Members THEN s + 1 ELSE NoBar]

\* grouping: the members constructed on the same axes, given data and put in
\* one stack, in no group yet
GroupsConstructed ==
  /\ SizesConstructed
  /\ alive = Members
  /\ keyAxis = [s \in Bars |-> "xAxis"]
  /\ valueAxis = [s \in Bars |-> "yAxis"]
  /\ mBarBelow = ChainBelow
  /\ mBarAbove = ChainAbove
  /\ mDataContainer = SampleData
  /\ mBarsGroup = [s \in Bars |-> NoGroup]
  /\ groupAlive = Groups
  /\ mBars = [g \in Groups |-> <<>>]
  /\ last = NoCall

(***************************************************************************)
(* Actions                                                                 *)
(***************************************************************************)
moveBelow(a, b) ==
  /\ last = NoCall
  /\ a \in alive /\ b \in alive \cup {NoBar}
  /\ LET st == moveBelowLinks(Links, a, b)
     IN /\ mBarBelow' = st.below
        /\ mBarAbove' = st.above
  /\ last' = Call("moveBelow", a, b, NoGroup, 0)
  /\ UNCHANGED <<alive, keyAxis, valueAxis, mBarsGroup, mDataContainer, groupAlive, mBars>>
  /\ UNCHANGED <<sizeVars, gradVars, glast>>

moveAbove(a, b) ==
  /\ last = NoCall
  /\ a \in alive /\ b \in alive \cup {NoBar}
  /\ LET st == moveAboveLinks(Links, a, b)
     IN /\ mBarBelow' = st.below
        /\ mBarAbove' = st.above
  /\ last' = Call("moveAbove", a, b, NoGroup, 0)
  /\ UNCHANGED <<alive, keyAxis, valueAxis, mBarsGroup, mDataContainer, groupAlive, mBars>>
  /\ UNCHANGED <<sizeVars, gradVars, glast>>

\* a destructor that leaves the stack as it is
destroyLinks_keep(st, a) == st

\* the link state QCPBars::~QCPBars leaves
destroyLinks(st, a) ==
  IF st.below[a] # NoBar \/ st.above[a] # NoBar
  THEN connectBars(st, st.below[a], st.above[a]) ELSE st

\* QPointer: a guarded pointer to a destroyed object reads as null
ClearGuarded(f, a) == [s \in Bars |-> IF f[s] = a THEN NoBar ELSE f[s]]

\* QCPBars::~QCPBars
destroyBars(a) ==
  /\ last = NoCall
  /\ a \in alive
  /\ LET ms == setBarsGroupM(Membership, a, NoGroup)
         st == destroyLinks(Links, a)
     IN /\ mBarsGroup' = ms.group
        /\ mBars' = ms.bars
        /\ mBarBelow' = ClearGuarded(st.below, a)
        /\ mBarAbove' = ClearGuarded(st.above, a)
  /\ alive' = alive \ {a}
  /\ last' = Call("destroyBars", a, NoBar, NoGroup, 0)
  /\ UNCHANGED <<keyAxis, valueAxis, mDataContainer, groupAlive>>
  /\ UNCHANGED <<sizeVars, gradVars, glast>>

setBarsGroup(s, g) ==
  /\ last = NoCall
  /\ s \in alive /\ g \in groupAlive \cup {NoGroup}
  /\ LET ms == setBarsGroupM(Membership, s, g)
     IN mBarsGroup' = ms.group /\ mBars' = ms.bars
  /\ last' = Call("setBarsGroup", s, NoBar, g, 0)
  /\ UNCHANGED <<alive, keyAxis, valueAxis, mBarBelow, mBarAbove, mDataContainer, groupAlive>>
  /\ UNCHANGED <<sizeVars, gradVars, glast>>

append(g, s) ==
  /\ last = NoCall
  /\ g \in groupAlive /\ s \in alive \cup {NoBar}
  /\ LET ms == appendM(Membership, g, s)
     IN mBarsGroup' = ms.group /\ mBars' = ms.bars
  /\ last' = Call("append", s, NoBar, g, 0)
  /\ UNCHANGED <<alive, keyAxis, valueAxis, mBarBelow, mBarAbove, mDataContainer, groupAlive>>
  /\ UNCHANGED <<sizeVars, gradVars, glast>>

insert(g, i, s) ==
  /\ last = NoCall
  /\ g \in groupAlive /\ s \in alive \cup {NoBar}
  /\ LET ms == insertM(Membership, g, i, s)
     IN mBarsGroup' = ms.group /\ mBars' = ms.bars
  /\ last' = Call("insert", s, NoBar, g, i)
  /\ UNCHANGED <<alive, keyAxis, valueAxis, mBarBelow, mBarAbove, mDataContainer, groupAlive>>
  /\ UNCHANGED <<sizeVars, gradVars, glast>>

remove(g, s) ==
  /\ last = NoCall
  /\ g \in groupAlive /\ s \in alive \cup {NoBar}
  /\ LET ms == removeM(Membership, g, s)
     IN mBarsGroup' = ms.group /\ mBars' = ms.bars
  /\ last' = Call("remove", s, NoBar, g, 0)
  /\ UNCHANGED <<alive, keyAxis, valueAxis, mBarBelow, mBarAbove, mDataContainer, groupAlive>>
  /\ UNCHANGED <<sizeVars, gradVars, glast>>

clear(g) ==
  /\ last = NoCall
  /\ g \in groupAlive
  /\ LET ms == clearM(Membership, g)
     IN mBarsGroup' = ms.group /\ mBars' = ms.bars
  /\ last' = Call("clear", NoBar, NoBar, g, 0)
  /\ UNCHANGED <<alive, keyAxis, valueAxis, mBarBelow, mBarAbove, mDataContainer, groupAlive>>
  /\ UNCHANGED <<sizeVars, gradVars, glast>>

\* QCPBarsGroup::~QCPBarsGroup
destroyGroup(g) ==
  /\ last = NoCall
  /\ g \in groupAlive
  /\ LET ms == clearM(Membership, g)
     IN mBarsGroup' = ms.group /\ mBars' = ms.bars
  /\ groupAlive' = groupAlive \ {g}
  /\ last' = Call("destroyGroup", NoBar, NoBar, g, 0)
  /\ UNCHANGED <<alive, keyAxis, valueAxis, mBarBelow, mBarAbove, mDataContainer>>
  /\ UNCHANGED <<sizeVars, gradVars, glast>>

\* index arguments tried by insert
InsertIndices == (0 - 1)..NumMembers

(***************************************************************************)
(* Colour gradient: initial states and actions                             *)
(***************************************************************************)
\* the level count the constructor sets
DefaultLevelCount == 350

\* inputs of the gradient calls
LevelCountInputs == 0..MaxLevelCount
PresetInputs == {"gpGrayscale", "gpHues"}
StopPositionInputs == {0, PosDen}
Palette == {Black, Red}
StopMapInputs == {StopsOf({}), StopsOf({<<0, Red>>, <<PosDen, Black>>})}
PositionInputs == {0 - 1, 1, 2, 8}
RangeInputs == {<<0, 2>>, <<1, 4>>}
DataInputs == {<<4, 1, 8, 2>>}
CountInputs == {0, 2}
FactorInputs == {1, 2}

\* the calls made where the mapping of positions to colours is exercised
ColorRangeInputs == {<<0, 2>>, <<1, 4>>, <<4, 1>>, <<0, 49>>}
ColorPositionInputs == {0 - 3, 0, 1, 2, 3, 4, 8, 49, 98}
ColorDataInputs == DataInputs \cup {<<49, 0 - 3, 98, 25>>}
SymmetricStops == StopsOf({<<0, Red>>, <<PosDen \div 2, Black>>, <<PosDen, Red>>})
ColorStopMapInputs == {SymmetricStops}

\* the calls made where the rebuild of the buffer is exercised
RebuildLevelCounts == 2..MaxRebuildLevels
RebuildPresets == {"gpGrayscale", "gpHot", "gpGeography"}
RebuildStopMaps == {StopsOf({}), StopsOf({<<PosDen \div 2, Red>>})}

\* the hues of two adjacent stops, in steps of 1/36000, and the factors
\* t = tn/HueSteps the hue interpolation is applied to
HueInputs == {0, 100, 9000, 17999, 18000, 18001, 27000, 35999}
HueSteps == MaxLevelCount + 1

RECURSIVE IsPow2(_)
IsPow2(x) == x = 1 \/ (x > 1 /\ x % 2 = 0 /\ IsPow2(x \div 2))
RECURSIVE Log2(_)
Log2(x) == IF x <= 1 THEN 0 ELSE 1 + Log2(x \div 2)

\* what the logarithmic mapping is defined on here: exact powers of two
LogDefined(position, range) ==
  IsPow2(position) /\ IsPow2(range[1]) /\ IsPow2(range[2]) /\ range[1] # range[2]

\* the raw index color and colorize compute before wrapping or clamping
rawIndex(position, range, logarithmic, n) ==
  IF ~logarithmic THEN linearIndex(position, range[1], range[2], n)
  ELSE logIndex(Log2(position) - Log2(range[1]), Log2(range[2]) - Log2(range[1]), n)

\* scaledIndex on the offsets and range sizes of the calls made, computed once
ScaledIndices ==
  [offset \in {d[i] - r[1] : d \in DataInputs \cup ColorDataInputs, i \in 1..4,
                             r \in RangeInputs \cup ColorRangeInputs},
   size \in {r[2] - r[1] : r \in RangeInputs \cup ColorRangeInputs},
   n \in 2..MaxLevelCount |-> scaledIndex(offset, size, n)]

\* the raw index colorize computes for one element
colorizeRawIndex(datum, range, logarithmic, n) ==
  IF logarithmic
  THEN logIndex(Log2(datum) - Log2(range[1]), Log2(range[2]) - Log2(range[1]), n)
  ELSE IF <<datum - range[1], range[2] - range[1], n>> \in DOMAIN ScaledIndices
  THEN ScaledIndices[datum - range[1], range[2] - range[1], n]
  ELSE scaledIndex(datum - range[1], range[2] - range[1], n)

\* the gradient call just made: its arguments (n, positions, range,
\* logarithmic), the level count and the invalidation mark it started from,
\* and what it returned
\* a QCPColorGradient object other than the one the variables hold
NoGradient == [stops |-> <<>>, levelCount |-> 0, interpolation |-> "ciRGB",
               periodic |-> FALSE, buffer |-> <<>>, invalidated |-> FALSE]

NoGCall == [op |-> "none", n |-> 0, index |-> <<>>, result |-> <<>>,
            rebuilt |-> FALSE, stale |-> FALSE, staleLen |-> 0,
            preLevelCount |-> 0, preInvalidated |-> FALSE,
            positions |-> <<>>, range |-> <<0, 0>>, logarithmic |-> FALSE,
            gradient |-> NoGradient]
GCall(op, n) ==
  [NoGCall EXCEPT !.op = op, !.n = n, !.preLevelCount = mLevelCount,
                  !.preInvalidated = mColorBufferInvalidated]

\* QCPColorGradient(preset) followed by setLevelCount(n), 2 <= n
GradientConstructed(preset, n) ==
  /\ mLevelCount = n
  /\ mColorInterpolation = PresetInterpolation(preset)
  /\ mPeriodic = FALSE
  /\ mColorBufferInvalidated = TRUE
  /\ mColorBuffer = [i \in 1..DefaultLevelCount |-> Black]
  /\ mColorStops = PresetStops(preset)
  /\ glast = NoGCall

clampLevelCount_none(n) == n

\* setLevelCount: if (n < 2) n = 2
clampLevelCount(n) == IF n < 2 THEN 2 ELSE n

setLevelCount_keepBuffer(n) ==
  /\ glast = NoGCall
  /\ mLevelCount' = (IF n < 2 THEN 2 ELSE n)
  /\ glast' = GCall("setLevelCount", n)
  /\ UNCHANGED <<mColorStops, mColorInterpolation, mPeriodic, mColorBuffer,
                 mColorBufferInvalidated>>
  /\ UNCHANGED <<barsVars, last>>

setLevelCount(n) ==
  /\ glast = NoGCall
  /\ LET m == clampLevelCount(n)
     IN IF m # mLevelCount
        THEN mLevelCount' = m /\ mColorBufferInvalidated' = TRUE
        ELSE UNCHANGED <<mLevelCount, mColorBufferInvalidated>>
  /\ glast' = GCall("setLevelCount", n)
  /\ UNCHANGED <<mColorStops, mColorInterpolation, mPeriodic, mColorBuffer>>
  /\ UNCHANGED <<barsVars, last>>

setColorStops(colorStops) ==
  /\ glast = NoGCall
  /\ mColorStops' = colorStops
  /\ mColorBufferInvalidated' = TRUE
  /\ glast' = GCall("setColorStops", 0)
  /\ UNCHANGED <<mLevelCount, mColorInterpolation, mPeriodic, mColorBuffer>>
  /\ UNCHANGED <<barsVars, last>>

\* QMap::insert: adds the key or replaces its value
MapInsert(f, k, v) == [x \in DOMAIN f \cup {k} |-> IF x = k THEN v ELSE f[x]]

setColorStopAt(position, color) ==
  /\ glast = NoGCall
  /\ mColorStops' = MapInsert(mColorStops, position, color)
  /\ mColorBufferInvalidated' = TRUE
  /\ glast' = GCall("setColorStopAt", 0)
  /\ UNCHANGED <<mLevelCount, mColorInterpolation, mPeriodic, mColorBuffer>>
  /\ UNCHANGED <<barsVars, last>>

setColorInterpolation(interpolation) ==
  /\ glast = NoGCall
  /\ IF interpolation # mColorInterpolation
     THEN mColorInterpolation' = interpolation /\ mColorBufferInvalidated' = TRUE
     ELSE UNCHANGED <<mColorInterpolation, mColorBufferInvalidated>>
  /\ glast' = GCall("setColorInterpolation", 0)
  /\ UNCHANGED <<mColorStops, mLevelCount, mPeriodic, mColorBuffer>>
  /\ UNCHANGED <<barsVars, last>>

setPeriodic(enabled) ==
  /\ glast = NoGCall
  /\ mPeriodic' = enabled
  /\ glast' = GCall("setPeriodic", 0)
  /\ UNCHANGED <<mColorStops, mLevelCount, mColorInterpolation, mColorBuffer,
                 mColorBufferInvalidated>>
  /\ UNCHANGED <<barsVars, last>>

clearColorStops ==
  /\ glast = NoGCall
  /\ mColorStops' = StopsOf({})
  /\ mColorBufferInvalidated' = TRUE
  /\ glast' = GCall("clearColorStops", 0)
  /\ UNCHANGED <<mLevelCount, mColorInterpolation, mPeriodic, mColorBuffer>>
  /\ UNCHANGED <<barsVars, last>>

\* clearColorStops, setColorInterpolation, then one setColorStopAt per stop
loadPreset(preset) ==
  /\ glast = NoGCall
  /\ mColorStops' = PresetStops(preset)
  /\ mColorInterpolation' = PresetInterpolation(preset)
  /\ mColorBufferInvalidated' = TRUE
  /\ glast' = GCall("loadPreset", 0)
  /\ UNCHANGED <<mLevelCount, mPeriodic, mColorBuffer>>
  /\ UNCHANGED <<barsVars, last>>

\* the stop maps the calls of NextGradient leave: what the constructor,
\* loadPreset, setColorStops and clearColorStops set, with the stops that
\* setColorStopAt adds or replaces
GradientStops ==
  LET set == {StopsOf({})} \cup {PresetStops(preset) : preset \in PresetInputs}
               \cup StopMapInputs \cup ColorStopMapInputs
      added == UNION {[S -> Palette] : S \in SUBSET StopPositionInputs}
  IN {[k \in DOMAIN f \cup DOMAIN g |-> IF k \in DOMAIN g THEN g[k] ELSE f[k]] :
        f \in set, g \in added}

\* updateColorBuffer on these stop maps, computed once
ColorBuffers ==
  [stops \in GradientStops, mode \in {"ciRGB", "ciHSV"}, n \in 2..MaxLevelCount |->
     SubSeq(updateColorBuffer(stops, mode, n), 1, n)]

RebuildBuffers ==
  [stops \in {PresetStops(preset) : preset \in RebuildPresets} \cup RebuildStopMaps,
   n \in RebuildLevelCounts |-> SubSeq(updateColorBuffer(stops, "ciRGB", n), 1, n)]

colorBufferOf(stops, mode, n) ==
  IF stops \in GradientStops /\ n \in 2..MaxLevelCount
  THEN ColorBuffers[stops, mode, n]
  ELSE IF mode = "ciRGB" /\ <<stops, n>> \in DOMAIN RebuildBuffers
  THEN RebuildBuffers[stops, n]
  ELSE updateColorBuffer(stops, mode, n)

\* the buffer color and colorize read: rebuilt first when it is invalidated
bufferRead ==
  IF mColorBufferInvalidated
  THEN colorBufferOf(mColorStops, mColorInterpolation, mLevelCount)
  ELSE mColorBuffer

bufferLookup_staleResult(op, buf, index, positions, range, logarithmic) ==
  /\ mColorBuffer' = buf
  /\ mColorBufferInvalidated' = FALSE
  /\ glast' = [GCall(op, Len(positions)) EXCEPT
                 !.index = index,
                 !.result = [i \in 1..Len(positions) |->
                               IF index[i] + 1 \in DOMAIN mColorBuffer
                               THEN mColorBuffer[index[i] + 1] ELSE Black],
                 !.rebuilt = mColorBufferInvalidated, !.stale = buf # mColorBuffer,
                 !.staleLen = Len(mColorBuffer), !.positions = positions,
                 !.range = range, !.logarithmic = logarithmic]

\* what color and colorize leave: the buffer buf they have read at the
\* indices index, for the positions of the call
bufferLookup(op, buf, index, positions, range, logarithmic) ==
  /\ mColorBuffer' = buf
  /\ mColorBufferInvalidated' = FALSE
  /\ glast' = [GCall(op, Len(positions)) EXCEPT
                 !.index = index,
                 !.result = [i \in 1..Len(positions) |-> buf[index[i] + 1]],
                 !.rebuilt = mColorBufferInvalidated, !.stale = buf # mColorBuffer,
                 !.staleLen = Len(mColorBuffer), !.positions = positions,
                 !.range = range, !.logarithmic = logarithmic]

color(position, range, logarithmic) ==
  /\ glast = NoGCall
  /\ logarithmic => LogDefined(position, range)
  /\ bufferLookup("color", bufferRead,
                  <<bufferIndex(rawIndex(position, range, logarithmic, mLevelCount),
                                mPeriodic, mLevelCount)>>,
                  <<position>>, range, logarithmic)
  /\ UNCHANGED <<mColorStops, mLevelCount, mColorInterpolation, mPeriodic>>
  /\ UNCHANGED <<barsVars, last>>

\* colorize; data and scanLine are null when hasData, hasScanLine are false
colorize(hasData, data, range, hasScanLine, n, dataIndexFactor, logarithmic) ==
  /\ glast = NoGCall
  /\ \A i \in 0..(n - 1) :
       /\ dataIndexFactor * i + 1 <= Len(data)
       /\ logarithmic => LogDefined(data[dataIndexFactor * i + 1], range)
  /\ IF ~hasData \/ ~hasScanLine
     THEN /\ glast' = GCall("colorize", 0)
          /\ UNCHANGED <<mColorBuffer, mColorBufferInvalidated>>
     ELSE bufferLookup("colorize", bufferRead,
                       [i \in 1..n |->
                          bufferIndex(colorizeRawIndex(data[dataIndexFactor * (i - 1) + 1],
                                                       range, logarithmic, mLevelCount),
                                      mPeriodic, mLevelCount)],
                       [i \in 1..n |-> data[dataIndexFactor * (i - 1) + 1]],
                       range, logarithmic)
  /\ UNCHANGED <<mColorStops, mLevelCount, mColorInterpolation, mPeriodic>>
  /\ UNCHANGED <<barsVars, last>>

\* the stops of the result of inverted: cleared, then one
\* setColorStopAt(1.0-it.key(), it.value()) per stop, in the order of the keys
RECURSIVE invertedStops(_, _, _)
invertedStops(stops, keys, result) ==
  IF keys = {} THEN result
  ELSE invertedStops(stops, keys \ {Min(keys)},
                     MapInsert(result, PosDen - Min(keys), stops[Min(keys)]))

invertedColorStops_kept(stops) == stops

\* the stops inverted gives its result, starting from no stop
invertedColorStops(stops) == invertedStops(stops, DOMAIN stops, StopsOf({}))

\* inverted: the copy of this gradient it returns, this gradient left alone
inverted ==
  /\ glast = NoGCall
  /\ glast' = [GCall("inverted", 0) EXCEPT
                 !.gradient =
                   [stops |-> invertedColorStops(mColorStops),
                    levelCount |-> mLevelCount,
                    interpolation |-> mColorInterpolation,
                    periodic |-> mPeriodic,
                    buffer |-> mColorBuffer,
                    invalidated |-> TRUE]]
  /\ UNCHANGED <<gradVars, barsVars, last>>

\* the QCPColorGradient object the variables hold
thisGradient ==
  [stops |-> mColorStops, levelCount |-> mLevelCount,
   interpolation |-> mColorInterpolation, periodic |-> mPeriodic,
   buffer |-> mColorBuffer, invalidated |-> mColorBufferInvalidated]

\* a second gradient object: QCPColorGradient(preset), setLevelCount(n) and
\* setColorStops(stops), its buffer as constructed or, when read is true,
\* rebuilt by one call of color
otherGradient(preset, n, stops, read) ==
  [stops |-> stops, levelCount |-> n,
   interpolation |-> PresetInterpolation(preset), periodic |-> FALSE,
   buffer |-> IF read THEN colorBufferOf(stops, PresetInterpolation(preset), n)
              ELSE [i \in 1..DefaultLevelCount |-> Black],
   invalidated |-> ~read]

\* the gradients this gradient is compared with
OtherGradients ==
  UNION {{otherGradient(preset, n, stops, read) :
            n \in 2..MaxLevelCount,
            stops \in {PresetStops(preset)} \cup ColorStopMapInputs,
            read \in BOOLEAN} : preset \in PresetInputs}

operatorEquals_withBuffer(this, other) ==
  /\ other.levelCount = this.levelCount
  /\ other.interpolation = this.interpolation
  /\ other.periodic = this.periodic
  /\ other.stops = this.stops
  /\ other.buffer = this.buffer

\* operator==: the level count, the interpolation, the periodic flag and the
\* stops of the two gradients are compared
operatorEquals(this, other) ==
  /\ other.levelCount = this.levelCount
  /\ other.interpolation = this.interpolation
  /\ other.periodic = this.periodic
  /\ other.stops = this.stops

\* this gradient == other
equals(other) ==
  /\ glast = NoGCall
  /\ glast' = [GCall("operator==", 0) EXCEPT
                 !.gradient = other,
                 !.result = <<operatorEquals(thisGradient, other)>>]
  /\ UNCHANGED <<gradVars, barsVars, last>>

\* the hue updateColorBuffer computes for one slot between two stops of the
\* hues lowHue and highHue, at t = tn/td
hueBetweenStops(lowHue, highHue, tn, td) ==
  /\ glast = NoGCall
  /\ glast' = [GCall("interpolateHue", 0) EXCEPT
                 !.positions = <<lowHue, highHue, tn, td>>,
                 !.result = <<interpolateHue(lowHue, highHue, tn, td)>>]
  /\ UNCHANGED <<gradVars, barsVars, last>>

(***************************************************************************)
(* Data of a series                                                        *)
(***************************************************************************)
\* keys are counted in units of 1/KeyDen, values in whole units
KeyDen == 10000000

\* most points a container is given
MaxPoints == 3

\* QCPBarsData(key, value)
QCPBarsData(key, value) == [key |-> key, value |-> value]

\* QCPDataContainer::add(data): the point put where the keys stay sorted,
\* behind the points of the same key
containerInsert(data, point) ==
  LET n == Cardinality({i \in 1..Len(data) : data[i].key <= point.key})
  IN SubSeq(data, 1, n) \o <<point>> \o SubSeq(data, n + 1, Len(data))

\* QCPDataContainer::add(data, alreadySorted): every point of data put in
RECURSIVE containerAdd(_, _)
containerAdd(data, points) ==
  IF points = <<>> THEN data
  ELSE containerAdd(containerInsert(data, Head(points)), Tail(points))

\* what a caller passing alreadySorted = true promises of the keys
KeysSorted(keys) == \A i \in 1..(Len(keys) - 1) : keys[i] <= keys[i + 1]

tempData_allKeys(keys, values) ==
  [i \in 1..Len(keys) |->
     QCPBarsData(keys[i], IF i <= Len(values) THEN values[i] ELSE 0)]

\* addData(keys, values, alreadySorted): the n = qMin(keys.size(),
\* values.size()) points it builds from the two vectors
tempData(keys, values) ==
  [i \in 1..Min({Len(keys), Len(values)}) |-> QCPBarsData(keys[i], values[i])]

\* the data calls record the vectors they were given
DataCall(op, s, keys, values) ==
  [Call(op, s, NoBar, NoGroup, 0) EXCEPT !.keys = keys, !.values = values]

addData(s, keys, values, alreadySorted) ==
  /\ last = NoCall
  /\ s \in alive
  /\ alreadySorted => KeysSorted(keys)
  /\ Len(mDataContainer[s]) + Len(tempData(keys, values)) <= MaxPoints
  /\ mDataContainer' =
       [mDataContainer EXCEPT ![s] = containerAdd(@, tempData(keys, values))]
  /\ last' = DataCall("addData", s, keys, values)
  /\ UNCHANGED <<alive, keyAxis, valueAxis, mBarBelow, mBarAbove, mBarsGroup,
                 groupAlive, mBars>>
  /\ UNCHANGED <<sizeVars, gradVars, glast>>

\* setData(keys, values, alreadySorted): mDataContainer->clear(), then addData
setData(s, keys, values, alreadySorted) ==
  /\ last = NoCall
  /\ s \in alive
  /\ alreadySorted => KeysSorted(keys)
  /\ mDataContainer' =
       [mDataContainer EXCEPT ![s] = containerAdd(<<>>, tempData(keys, values))]
  /\ last' = DataCall("setData", s, keys, values)
  /\ UNCHANGED <<alive, keyAxis, valueAxis, mBarBelow, mBarAbove, mBarsGroup,
                 groupAlive, mBars>>
  /\ UNCHANGED <<sizeVars, gradVars, glast>>

\* addData(key, value)
addPoint(s, key, value) ==
  /\ last = NoCall
  /\ s \in alive
  /\ Len(mDataContainer[s]) < MaxPoints
  /\ mDataContainer' =
       [mDataContainer EXCEPT ![s] = containerInsert(@, QCPBarsData(key, value))]
  /\ last' = DataCall("addPoint", s, <<key>>, <<value>>)
  /\ UNCHANGED <<alive, keyAxis, valueAxis, mBarBelow, mBarAbove, mBarsGroup,
                 groupAlive, mBars>>
  /\ UNCHANGED <<sizeVars, gradVars, glast>>

(***************************************************************************)
(* Layout of the bars along the key axis                                   *)
(***************************************************************************)
\* pixels are counted in eighths, so that half a width of a whole number of
\* quarters is a whole number
PixelDen == 8

\* QCPAxis::rangeReversed and QCPAxis::orientation of the axes used
rangeReversed(axis) == axis = "xAxis2"
isVertical(axis) == axis \in ValueAxes

\* QCPAxis::coordToPixel of a linear axis: eighths of a pixel per unit of the
\* coordinate (1/KeyDen on a key axis, 1 on a value axis), counted from the
\* pixel of coordinate 0
coordToPixel(axis, coord) ==
  CASE axis = "xAxis" -> 2 * coord
    [] axis = "xAxis2" -> 0 - 3 * coord
    [] axis = "yAxis" -> 0 - 2 * PixelDen * coord
    [] axis = "yAxis2" -> 0 - 3 * PixelDen * coord

\* QCPAxisRect::width of the axis rect of the key axes, in pixels
AxisRectWidth == 400

\* qAbs
qAbs(x) == IF x < 0 THEN 0 - x ELSE x

\* getPixelWidth(key, lower, upper): <<lower, upper>> in eighths of a pixel
getPixelWidth(s, key) ==
  LET swap == rangeReversed(keyAxis[s]) # isVertical(keyAxis[s])
      symmetric(upper) == IF swap THEN <<upper, 0 - upper>> ELSE <<0 - upper, upper>>
  IN CASE mWidthType[s] = "wtAbsolute" ->
            \* upper = mWidth*0.5 pixels
            symmetric((mWidth[s] * PixelDen) \div (2 * SizeDen))
       [] mWidthType[s] = "wtAxisRectRatio" ->
            symmetric((AxisRectWidth * mWidth[s] * PixelDen) \div (2 * SizeDen))
       [] mWidthType[s] = "wtPlotCoords" ->
            LET keyPixel == coordToPixel(keyAxis[s], key)
                half == (mWidth[s] * KeyDen) \div (2 * SizeDen)
            IN <<coordToPixel(keyAxis[s], key - half) - keyPixel,
                 coordToPixel(keyAxis[s], key + half) - keyPixel>>

\* qAbs(upperPixelWidth-lowerPixelWidth) after getPixelWidth
pixelWidth(s, key) == qAbs(getPixelWidth(s, key)[2] - getPixelWidth(s, key)[1])

\* QCPBarsGroup::getPixelSpacing(bars, keyCoord), in eighths of a pixel
getPixelSpacing(g, s, keyCoord) ==
  CASE mSpacingType[g] = "stAbsolute" -> (mSpacing[g] * PixelDen) \div SizeDen
    [] mSpacingType[g] = "stAxisRectRatio" ->
         (AxisRectWidth * mSpacing[g] * PixelDen) \div SizeDen
    [] mSpacingType[g] = "stPlotCoords" ->
         coordToPixel(keyAxis[s], keyCoord + (mSpacing[g] * KeyDen) \div SizeDen)
           - coordToPixel(keyAxis[s], keyCoord)

\* while (b->barBelow()) b = b->barBelow()
RECURSIVE stackRoot(_)
stackRoot(s) == IF mBarBelow[s] = NoBar THEN s ELSE stackRoot(mBarBelow[s])

RECURSIVE baseBars_all(_)
RECURSIVE baseBars(_)
baseBars_all(members) ==
  IF members = <<>> THEN <<>>
  ELSE Append(baseBars_all(SubSeq(members, 1, Len(members) - 1)),
              stackRoot(members[Len(members)]))

\* the list baseBars of keyPixelOffset: the bottom series of each member's
\* stack, appended unless the list contains it
baseBars(members) ==
  IF members = <<>> THEN <<>>
  ELSE LET before == baseBars(SubSeq(members, 1, Len(members) - 1))
           b == stackRoot(members[Len(members)])
       IN IF Contains(before, b) THEN before ELSE Append(before, b)

\* the widths and spacings the loops of keyPixelOffset add up: those of the
\* base bars of the 0-based indices from..to
RECURSIVE slotSum(_, _, _, _)
slotSum(widths, spacings, from, to) ==
  IF from > to THEN 0
  ELSE widths[from + 1] + spacings[from + 1] + slotSum(widths, spacings, from + 1, to)

slotOffset_noSpacing(widths, spacings, index) ==
  LET size == Len(widths)
      center == (size - 1) \div 2
  IN IF index < 0 \/ (size % 2 = 1 /\ index = center) THEN 0
     ELSE IF 2 * index < size - 1
     THEN 0 - (IF size % 2 = 0 THEN 0 ELSE widths[center + 1] \div 2)
            - slotSum(widths, spacings, index + 1,
                      IF size % 2 = 0 THEN size \div 2 - 1 ELSE center - 1)
            - widths[index + 1] \div 2
     ELSE (IF size % 2 = 0 THEN 0 ELSE widths[center + 1] \div 2)
            + slotSum(widths, spacings, IF size % 2 = 0 THEN size \div 2 ELSE center + 1,
                      index - 1)
            + widths[index + 1] \div 2

\* the result of keyPixelOffset for the base bar of the 0-based index among
\* base bars of the pixel widths widths, spacings[i] the pixel spacing
\* getPixelSpacing gives for base bar i; all in eighths of a pixel
slotOffset(widths, spacings, index) ==
  LET size == Len(widths)
      center == (size - 1) \div 2
  IN IF index < 0 \/ (size % 2 = 1 /\ index = center) THEN 0
     ELSE IF 2 * index < size - 1
     THEN \* bar is to the left of center
          0 - (IF size % 2 = 0 THEN spacings[size \div 2] \div 2
               ELSE widths[center + 1] \div 2 + spacings[center + 1])
            - slotSum(widths, spacings, index + 1,
                      IF size % 2 = 0 THEN size \div 2 - 1 ELSE center - 1)
            - widths[index + 1] \div 2
     ELSE \* bar is to the right of center
          (IF size % 2 = 0 THEN spacings[size \div 2 + 1] \div 2
           ELSE widths[center + 1] \div 2 + spacings[center + 1])
            + slotSum(widths, spacings, IF size % 2 = 0 THEN size \div 2 ELSE center + 1,
                      index - 1)
            + widths[index + 1] \div 2

\* QCPBarsGroup::keyPixelOffset(bars, keyCoord), this = g, bars = s
keyPixelOffset(g, s, keyCoord) ==
  slotOffset([i \in 1..Len(baseBars(mBars[g])) |->
                pixelWidth(baseBars(mBars[g])[i], keyCoord)],
             [i \in 1..Len(baseBars(mBars[g])) |->
                getPixelSpacing(g, baseBars(mBars[g])[i], keyCoord)],
             IndexOf(baseBars(mBars[g]), stackRoot(s)))

\* a call of keyPixelOffset, its result recorded
queryKeyPixelOffset(g, s, keyCoord) ==
  /\ last = NoCall
  /\ g \in groupAlive /\ s \in alive
  /\ last' = [Call("keyPixelOffset", s, NoBar, g, 0) EXCEPT
                !.keys = <<keyCoord>>, !.result = <<keyPixelOffset(g, s, keyCoord)>>]
  /\ UNCHANGED <<barsVars, gradVars, glast>>

\* keyPixelOffset for every base bar of a group whose base bars have the
\* pixel widths widths and the pixel spacings spacings
slotOffsets(widths, spacings) ==
  /\ last = NoCall
  /\ last' = [Call("slotOffsets", NoBar, NoBar, NoGroup, 0) EXCEPT
                !.keys = widths, !.values = spacings,
                !.result = [i \in 1..Len(widths) |-> slotOffset(widths, spacings, i - 1)]]
  /\ UNCHANGED <<barsVars, gradVars, glast>>

(***************************************************************************)
(* Values of stacked bars                                                  *)
(***************************************************************************)
\* 1e-6, the factor of epsilon in getStackedBaseValue
EpsilonDen == 1000000

withinEpsilon_sameKey(pointKey, key) == pointKey = key

\* it->key > key-epsilon && it->key < key+epsilon, epsilon = qAbs(key)*1e-6,
\* or 1e-6 when key is 0: in units of 1/KeyDen epsilon is qAbs(key)/EpsilonDen
\* or KeyDen/EpsilonDen, and a whole distance is below it when it is at most
\* the whole part of what is just below it
withinEpsilon(pointKey, key) ==
  qAbs(pointKey - key)
    <= ((IF key = 0 THEN KeyDen ELSE qAbs(key)) - 1) \div EpsilonDen

\* the loop of getStackedBaseValue over the points of the series below, from
\* findBeginBelowKey(key-epsilon) to findEndAboveKey(key+epsilon): the points
\* outside epsilon, which that range may hold at its ends, are skipped
RECURSIVE stackedMax(_, _, _, _)
stackedMax(points, key, positive, max) ==
  IF points = <<>> THEN max
  ELSE LET it == Head(points)
       IN stackedMax(Tail(points), key, positive,
                     IF /\ withinEpsilon(it.key, key)
                        /\ \/ (positive /\ it.value > max)
                           \/ (~positive /\ it.value < max)
                     THEN it.value ELSE max)

\* getStackedBaseValue(key, positive) of series s, base the base values
RECURSIVE getStackedBaseValue(_, _, _, _)
getStackedBaseValue(base, s, key, positive) ==
  IF mBarBelow[s] # NoBar
  THEN stackedMax(mDataContainer[mBarBelow[s]], key, positive, 0)
         + getStackedBaseValue(base, mBarBelow[s], key, positive)
  ELSE base[s]

\* the loop of getValueRange over the points of the series
RECURSIVE valueRangeOver(_, _, _, _, _)
valueRangeOver(base, s, points, inSignDomain, range) ==
  IF points = <<>> THEN range
  ELSE LET it == Head(points)
           current == it.value + getStackedBaseValue(base, s, it.key, it.value >= 0)
           taken == \/ inSignDomain = "sdBoth"
                    \/ (inSignDomain = "sdNegative" /\ current < 0)
                    \/ (inSignDomain = "sdPositive" /\ current > 0)
       IN valueRangeOver(base, s, Tail(points), inSignDomain,
                         IF taken
                         THEN [lower |-> IF current < range.lower THEN current
                                         ELSE range.lower,
                               upper |-> IF current > range.upper THEN current
                                         ELSE range.upper]
                         ELSE range)

getValueRange_dataOnly(base, s, inSignDomain) ==
  LET values == {mDataContainer[s][i].value : i \in 1..Len(mDataContainer[s])}
  IN [lower |-> IF values = {} THEN 0 ELSE Min(values),
      upper |-> IF values = {} THEN 0 ELSE Max(values),
      foundRange |-> values # {}]

\* getValueRange(foundRange, inSignDomain) of series s
getValueRange(base, s, inSignDomain) ==
  [foundRange |-> TRUE] @@
  valueRangeOver(base, s, mDataContainer[s], inSignDomain,
                 [lower |-> base[s], upper |-> base[s]])

\* getBarPolygon(key, value) of series s: its four points
getBarPolygon(base, s, key, value) ==
  LET width == getPixelWidth(s, key)
      stacked == getStackedBaseValue(base, s, key, value >= 0)
      basePixel == coordToPixel(valueAxis[s], stacked)
      valuePixel == coordToPixel(valueAxis[s], stacked + value)
      keyPixel == coordToPixel(keyAxis[s], key)
                    + (IF mBarsGroup[s] # NoGroup
                       THEN keyPixelOffset(mBarsGroup[s], s, key) ELSE 0)
  IN IF ~isVertical(keyAxis[s])
     THEN <<<<keyPixel + width[1], basePixel>>, <<keyPixel + width[1], valuePixel>>,
            <<keyPixel + width[2], valuePixel>>, <<keyPixel + width[2], basePixel>>>>
     ELSE <<<<basePixel, keyPixel + width[1]>>, <<valuePixel, keyPixel + width[1]>>,
            <<valuePixel, keyPixel + width[2]>>, <<basePixel, keyPixel + width[2]>>>>

setBaseValue(s, baseValue) ==
  /\ last = NoCall
  /\ s \in alive
  /\ mBaseValue' = [mBaseValue EXCEPT ![s] = baseValue]
  /\ last' = [Call("setBaseValue", s, NoBar, NoGroup, 0) EXCEPT !.values = <<baseValue>>]
  /\ UNCHANGED <<alive, keyAxis, valueAxis, mBarBelow, mBarAbove, mBarsGroup,
                 mDataContainer, groupAlive, mBars>>
  /\ UNCHANGED <<mWidth, mWidthType, mSpacing, mSpacingType, gradVars, glast>>

\* a call of getStackedBaseValue, its result recorded
queryStackedBaseValue(s, key, positive) ==
  /\ last = NoCall
  /\ s \in alive
  /\ last' = [Call("getStackedBaseValue", s, NoBar, NoGroup, 0) EXCEPT
                !.keys = <<key>>, !.values = <<positive>>,
                !.result = <<getStackedBaseValue(mBaseValue, s, key, positive)>>]
  /\ UNCHANGED <<barsVars, gradVars, glast>>

\* a call of getValueRange, its result recorded
queryValueRange(s, inSignDomain) ==
  /\ last = NoCall
  /\ s \in alive
  /\ last' = [Call("getValueRange", s, NoBar, NoGroup, 0) EXCEPT
                !.values = <<inSignDomain>>,
                !.result = <<getValueRange(mBaseValue, s, inSignDomain)>>]
  /\ UNCHANGED <<barsVars, gradVars, glast>>

\* the caller has looked at the outcome of the call recorded in last or glast;
\* one call is recorded at a time, and the next call is made after this
Forget ==
  /\ last # NoCall \/ glast # NoGCall
  /\ last' = NoCall
  /\ glast' = NoGCall
  /\ UNCHANGED <<barsVars, gradVars>>

NextGradient ==
  \/ \E n \in LevelCountInputs : setLevelCount(n)
  \/ \E m \in StopMapInputs : setColorStops(m)
  \/ \E p \in StopPositionInputs, c \in Palette : setColorStopAt(p, c)
  \/ \E i \in {"ciRGB", "ciHSV"} : setColorInterpolation(i)
  \/ \E e \in BOOLEAN : setPeriodic(e)
  \/ clearColorStops
  \/ \E preset \in PresetInputs : loadPreset(preset)
  \/ \E p \in PositionInputs, r \in RangeInputs, lg \in BOOLEAN : color(p, r, lg)
  \/ \E hd \in BOOLEAN, d \in DataInputs, r \in RangeInputs, hs \in BOOLEAN,
        n \in CountInputs, f \in FactorInputs, lg \in BOOLEAN :
       colorize(hd, d, r, hs, n, f, lg)
  \/ Forget

NextStack ==
  \/ \E a \in Bars, b \in Bars \cup {NoBar} : moveBelow(a, b)
  \/ \E a \in Bars, b \in Bars \cup {NoBar} : moveAbove(a, b)
  \/ \E a \in Bars : destroyBars(a)
  \/ Forget

NextGroups ==
  \/ \E s \in Bars, g \in Groups \cup {NoGroup} : setBarsGroup(s, g)
  \/ \E g \in Groups, s \in Bars \cup {NoBar} : append(g, s)
  \/ \E g \in Groups, i \in InsertIndices, s \in Bars \cup {NoBar} : insert(g, i, s)
  \/ \E g \in Groups, s \in Bars \cup {NoBar} : remove(g, s)
  \/ \E g \in Groups : clear(g)
  \/ \E g \in Groups : destroyGroup(g)
  \/ \E a \in Bars : destroyBars(a)
  \/ Forget

\* the bars left as constructed while the gradient is exercised
BarsIdle ==
  /\ StackConstructed
  /\ keyAxis = [s \in Bars |-> "xAxis"]
  /\ valueAxis = [s \in Bars |-> "yAxis"]

\* the gradient left as constructed while the bars are exercised
GradientIdle == GradientConstructed("gpGrayscale", 2)

InitStack == StackConstructed /\ GradientIdle
InitGroups == GroupsConstructed /\ GradientIdle
InitGradient ==
  /\ BarsIdle
  /\ \E preset \in PresetInputs, n \in 2..MaxLevelCount : GradientConstructed(preset, n)

SpecStack == InitStack /\ [][NextStack]_vars
SpecGroups == InitGroups /\ [][NextGroups]_vars
SpecGradient == InitGradient /\ [][NextGradient]_vars

\* the mapping of positions to colours: a gradient as constructed or given
\* other stops, read by color and colorize, periodic or not
NextColor ==
  \/ \E e \in BOOLEAN : setPeriodic(e)
  \/ \E m \in ColorStopMapInputs : setColorStops(m)
  \/ \E p \in ColorPositionInputs, r \in ColorRangeInputs, lg \in BOOLEAN : color(p, r, lg)
  \/ \E d \in ColorDataInputs, r \in ColorRangeInputs, n \in CountInputs,
        f \in FactorInputs, lg \in BOOLEAN : colorize(TRUE, d, r, TRUE, n, f, lg)
  \/ inverted
  \/ \E other \in OtherGradients : equals(other)
  \/ Forget

SpecColor == InitGradient /\ [][NextColor]_vars

\* the rebuild of the buffer: presets and stop maps of no, one and more
\* stops at several level counts, each read by color
NextRebuild ==
  \/ \E n \in RebuildLevelCounts : setLevelCount(n)
  \/ \E m \in RebuildStopMaps : setColorStops(m)
  \/ \E preset \in RebuildPresets : loadPreset(preset)
  \/ \E p \in PositionInputs, r \in RangeInputs : color(p, r, FALSE)
  \/ Forget

InitRebuild ==
  /\ BarsIdle
  /\ \E preset \in RebuildPresets, n \in RebuildLevelCounts : GradientConstructed(preset, n)

SpecRebuild == InitRebuild /\ [][NextRebuild]_vars

\* the hue interpolation of the ciHSV case applied to pairs of stop hues
NextHue ==
  \/ \E lowHue \in HueInputs, highHue \in HueInputs, tn \in 1..HueSteps :
       hueBetweenStops(lowHue, highHue, tn, HueSteps)
  \/ Forget

SpecHue == InitGradient /\ [][NextHue]_vars

\* the series given data, and the vectors they are given: of equal and of
\* different lengths, sorted and not, with keys that agree and keys apart
DataSeries == {1, 2}
DataVectorInputs ==
  {<<<<KeyDen>>, <<3>>>>,
   <<<<KeyDen + 5, KeyDen>>, <<0 - 2, 5>>>>,
   <<<<0, 2 * KeyDen, KeyDen>>, <<4, 0 - 1>>>>,
   <<<<KeyDen>>, <<7, 8>>>>}

\* the data of the series: set, added to and replaced
NextData ==
  \/ \E s \in DataSeries, d \in DataVectorInputs, sorted \in BOOLEAN :
       setData(s, d[1], d[2], sorted)
  \/ \E s \in DataSeries, d \in DataVectorInputs, sorted \in BOOLEAN :
       addData(s, d[1], d[2], sorted)
  \/ \E s \in DataSeries : addPoint(s, 0 - KeyDen, 6)
  \/ Forget

SpecData == InitGroups /\ [][NextData]_vars

\* most base bars a group is laid out with
MaxSlots == 5

\* pixel widths and pixel spacings of base bars, in eighths of a pixel
SlotWidthInputs == {2 * PixelDen, 5 * PixelDen}
SlotSpacingInputs == {0 - PixelDen, 0, 3 * PixelDen}

\* keyPixelOffset applied to groups of 1 to MaxSlots base bars of absolute
\* widths with an absolute spacing
NextSlots ==
  \/ \E n \in 1..MaxSlots :
       \E widths \in [1..n -> SlotWidthInputs], spacing \in SlotSpacingInputs :
         slotOffsets(widths, [i \in 1..n |-> spacing])
  \/ Forget

SpecSlots == InitGroups /\ [][NextSlots]_vars

\* the key axis and the widths and spacings given by setWidth, setWidthType,
\* setSpacing and setSpacingType: in pixels, as the constructors leave the
\* types with the spacing in plot coordinates, and in parts of the axis
\* rect; every series of the same width or series s of s times the width
SizeLayouts ==
  {[axis |-> "xAxis", width |-> 4 * SizeDen, widthType |-> "wtAbsolute",
    spacing |-> 4 * SizeDen, spacingType |-> "stAbsolute", equal |-> TRUE],
   [axis |-> "xAxis2", width |-> 2 * SizeDen, widthType |-> "wtAbsolute",
    spacing |-> 0, spacingType |-> "stAbsolute", equal |-> FALSE],
   [axis |-> "xAxis", width |-> 3, widthType |-> "wtPlotCoords",
    spacing |-> SizeDen, spacingType |-> "stPlotCoords", equal |-> TRUE],
   [axis |-> "xAxis2", width |-> 3, widthType |-> "wtPlotCoords",
    spacing |-> SizeDen, spacingType |-> "stPlotCoords", equal |-> TRUE],
   [axis |-> "xAxis", width |-> 1, widthType |-> "wtAxisRectRatio",
    spacing |-> 1, spacingType |-> "stAxisRectRatio", equal |-> TRUE]}

\* the layout of groups: the members constructed on one key axis, nothing
\* stacked, nothing grouped, the sizes set
LayoutConstructed ==
  /\ alive = Members
  /\ valueAxis = [s \in Bars |-> "yAxis"]
  /\ mBarBelow = [s \in Bars |-> NoBar]
  /\ mBarAbove = [s \in Bars |-> NoBar]
  /\ mDataContainer = EmptyData
  /\ mBarsGroup = [s \in Bars |-> NoGroup]
  /\ groupAlive = Groups
  /\ mBars = [g \in Groups |-> <<>>]
  /\ mBaseValue = [s \in Bars |-> 0]
  /\ \E lay \in SizeLayouts :
       /\ keyAxis = [s \in Bars |-> lay.axis]
       /\ mWidth = [s \in Bars |-> IF lay.equal THEN lay.width ELSE s * lay.width]
       /\ mWidthType = [s \in Bars |-> lay.widthType]
       /\ mSpacing = [g \in Groups |-> lay.spacing]
       /\ mSpacingType = [g \in Groups |-> lay.spacingType]
  /\ last = NoCall

\* the group laid out and the key coordinate it is laid out at
LayoutGroups == {1}
LayoutKeys == {KeyDen}

NextLayout ==
  \/ \E a \in Bars, b \in Bars : moveAbove(a, b)
  \/ \E g \in LayoutGroups, s \in Bars : append(g, s)
  \/ \E g \in LayoutGroups, s \in Bars, keyCoord \in LayoutKeys :
       queryKeyPixelOffset(g, s, keyCoord)
  \/ Forget

InitLayout == LayoutConstructed /\ GradientIdle
SpecLayout == InitLayout /\ [][NextLayout]_vars

\* the data the stacked series are given by setData: one point each at key
\* 1; points at key 1, just beside it and apart from it, of either sign;
\* the same around key 0; and at key -1, the top series left without data
StackedDataInputs ==
  {[s \in Bars |-> <<<<KeyDen>>, <<IF s = 1 THEN 3 ELSE s + 3>>>>],
   [s \in Bars |->
      CASE s = 1 -> <<<<KeyDen - 5, KeyDen, KeyDen + 5>>, <<0 - 2, 3, 7>>>>
        [] s = 2 -> <<<<KeyDen, KeyDen + 20, KeyDen + 5>>, <<0 - 4, 9, 0 - 1>>>>
        [] OTHER -> <<<<KeyDen + 5, KeyDen>>, <<0 - 6, 1>>>>],
   [s \in Bars |->
      CASE s = 1 -> <<<<0 - 5, 0, 5>>, <<2, 0 - 3, 4>>>>
        [] s = 2 -> <<<<0, 20>>, <<6, 8>>>>
        [] OTHER -> <<<<0>>, <<0 - 1>>>>],
   [s \in Bars |->
      CASE s = 1 -> <<<<0 - KeyDen - 5, 0 - KeyDen>>, <<3, 1>>>>
        [] s = 2 -> <<<<0 - KeyDen>>, <<0 - 2>>>>
        [] OTHER -> <<<<>>, <<>>>>]}

\* the values of stacked bars: the members constructed on the same axes,
\* stacked 1 (bottom), 2, ... and given data
ValuesConstructed ==
  /\ SizesConstructed
  /\ alive = Members
  /\ keyAxis = [s \in Bars |-> "xAxis"]
  /\ valueAxis = [s \in Bars |-> "yAxis"]
  /\ mBarBelow = ChainBelow
  /\ mBarAbove = ChainAbove
  /\ \E d \in StackedDataInputs :
       mDataContainer = [s \in Bars |-> containerAdd(<<>>, tempData(d[s][1], d[s][2]))]
  /\ mBarsGroup = [s \in Bars |-> NoGroup]
  /\ groupAlive = Groups
  /\ mBars = [g \in Groups |-> <<>>]
  /\ last = NoCall

BaseValueInputs == {0 - 4, 0, 2}
QueryKeyInputs == {0 - KeyDen, 0, KeyDen, KeyDen + 20}
SignDomains == {"sdNegative", "sdBoth", "sdPositive"}

NextValues ==
  \/ \E s \in Bars, baseValue \in BaseValueInputs : setBaseValue(s, baseValue)
  \/ \E s \in Bars, key \in QueryKeyInputs, positive \in BOOLEAN :
       queryStackedBaseValue(s, key, positive)
  \/ \E s \in Bars, inSignDomain \in SignDomains : queryValueRange(s, inSignDomain)
  \/ Forget

InitValues == ValuesConstructed /\ GradientIdle
SpecValues == InitValues /\ [][NextValues]_vars

(***************************************************************************)
(* Properties of the stack linkage                                         *)
(***************************************************************************)
\* the series met following the pointer field f from x, at most n steps
RECURSIVE Follow(_, _, _)
Follow(f, x, n) ==
  IF n = 0 \/ f[x] = NoBar THEN {} ELSE {f[x]} \cup Follow(f, f[x], n - 1)

IsMove == last.op \in {"moveBelow", "moveAbove"}
\* the axes never change, so this is also the comparison the call made
CallSameAxes == last.b # NoBar /\ SameAxes(last.a, last.b)

\* C1: in every state reached by moveAbove, moveBelow (with or without a
\* target) and destruction, x.barAbove() = y exactly when y.barBelow() = x, no
\* two series share the same barBelow or the same barAbove, and following
\* barBelow or barAbove from a series never comes back to it.
C1_StackLinksConsistent ==
  /\ \A x \in Bars, y \in Bars : (mBarAbove[x] = y) <=> (mBarBelow[y] = x)
  /\ \A x \in Bars, y \in Bars :
       /\ (x # y /\ mBarBelow[x] # NoBar) => mBarBelow[x] # mBarBelow[y]
       /\ (x # y /\ mBarAbove[x] # NoBar) => mBarAbove[x] # mBarAbove[y]
  /\ \A x \in Bars :
       /\ x \notin Follow(mBarBelow, x, NumBars)
       /\ x \notin Follow(mBarAbove, x, NumBars)

\* a move of a series out of the middle of one stack has left two stacks of at
\* least two series each behind
C1_Witness ==
  /\ IsMove /\ last.b # NoBar
  /\ last.preBelow[last.a] # NoBar /\ last.preAbove[last.a] # NoBar
  /\ mBarAbove[last.preBelow[last.a]] = last.preAbove[last.a]
  /\ Cardinality({x \in Bars : mBarBelow[x] # NoBar}) >= 2

\* C2: after a.moveAbove(b), b a series other than a on the same axes, a sits
\* directly above b; and the series c that sat directly above b before the
\* call (c other than a) sits directly above a.
C2_MoveAbovePost ==
  (last.op = "moveAbove" /\ last.b # NoBar /\ last.b # last.a /\ CallSameAxes) =>
    /\ mBarBelow[last.a] = last.b
    /\ mBarAbove[last.b] = last.a
    /\ LET c == last.preAbove[last.b]
       IN (c # NoBar /\ c # last.a) => (mBarAbove[last.a] = c /\ mBarBelow[c] = last.a)

\* a was directly below b, in b's own stack, and b had c above it
C2_Witness ==
  /\ last.op = "moveAbove" /\ last.b # NoBar /\ last.b # last.a /\ CallSameAxes
  /\ last.preAbove[last.a] = last.b
  /\ last.preAbove[last.b] # NoBar
  /\ mBarAbove[last.a] = last.preAbove[last.b]

\* C3: after a.moveBelow(b), b a series other than a on the same axes, a sits
\* directly below b; and the series c that sat directly below b before the
\* call (c other than a) sits directly below a.
C3_MoveBelowPost ==
  (last.op = "moveBelow" /\ last.b # NoBar /\ last.b # last.a /\ CallSameAxes) =>
    /\ mBarAbove[last.a] = last.b
    /\ mBarBelow[last.b] = last.a
    /\ LET c == last.preBelow[last.b]
       IN (c # NoBar /\ c # last.a) => (mBarBelow[last.a] = c /\ mBarAbove[c] = last.a)

\* a was directly above b, in b's own stack, and b had c below it
C3_Witness ==
  /\ last.op = "moveBelow" /\ last.b # NoBar /\ last.b # last.a /\ CallSameAxes
  /\ last.preBelow[last.a] = last.b
  /\ last.preBelow[last.b] # NoBar
  /\ mBarBelow[last.a] = last.preBelow[last.b]

\* C4: after a.moveBelow(none) or a.moveAbove(none), a has neither a barBelow
\* nor a barAbove; the series L that was below a and the series U that was
\* above a are linked to each other when both existed, and otherwise the one
\* that existed ends its stack where a was.
C4_RemovePost ==
  (IsMove /\ last.b = NoBar) =>
    LET L == last.preBelow[last.a]
        U == last.preAbove[last.a]
    IN /\ mBarBelow[last.a] = NoBar
       /\ mBarAbove[last.a] = NoBar
       /\ (L # NoBar /\ U # NoBar) => (mBarAbove[L] = U /\ mBarBelow[U] = L)
       /\ (L # NoBar /\ U = NoBar) => mBarAbove[L] = NoBar
       /\ (L = NoBar /\ U # NoBar) => mBarBelow[U] = NoBar

\* a was taken out from between two series
C4_Witness ==
  /\ IsMove /\ last.b = NoBar
  /\ last.preBelow[last.a] # NoBar /\ last.preAbove[last.a] # NoBar
  /\ mBarAbove[last.preBelow[last.a]] = last.preAbove[last.a]

\* at least one series was taken from the top of a stack
C4_WitnessTop ==
  /\ IsMove /\ last.b = NoBar
  /\ last.preBelow[last.a] # NoBar /\ last.preAbove[last.a] = NoBar

\* C6: a.moveBelow(b) or a.moveAbove(b) with b on another key axis or another
\* value axis than a leaves the barBelow and barAbove of every series as they
\* were.
C6_AxisMismatchNoEffect ==
  (IsMove /\ last.b # NoBar /\ last.b # last.a /\ ~CallSameAxes) =>
    (mBarBelow = last.preBelow /\ mBarAbove = last.preAbove)

\* the call was made on a series linked into a stack, towards a linked target
C6_Witness ==
  /\ IsMove /\ last.b # NoBar /\ last.b # last.a /\ ~CallSameAxes
  /\ last.preBelow[last.a] # NoBar \/ last.preAbove[last.a] # NoBar
  /\ last.preBelow[last.b] # NoBar \/ last.preAbove[last.b] # NoBar
  /\ mBarBelow[last.a] # NoBar \/ mBarAbove[last.a] # NoBar

(***************************************************************************)
(* Properties of destruction and of the group membership                   *)
(***************************************************************************)
\* C5: a destroyed series is referred to by no surviving series' barBelow or
\* barAbove and is in no group's member list, whatever was destroyed before
\* it; the surviving series are linked as moveBelow(none) on the destroyed
\* series would have linked them.
C5_DestroyUnlinks ==
  /\ \A d \in Bars \ alive :
       /\ \A x \in alive : mBarBelow[x] # d /\ mBarAbove[x] # d
       /\ \A g \in groupAlive : ~Contains(mBars[g], d)
  /\ last.op = "destroyBars" =>
       LET st == moveBelowLinks([below |-> last.preBelow, above |-> last.preAbove],
                                last.a, NoBar)
       IN \A x \in alive : mBarBelow[x] = st.below[x] /\ mBarAbove[x] = st.above[x]

\* a series was destroyed between two stacked series while it was in a group
C5_Witness ==
  /\ last.op = "destroyBars"
  /\ last.preBelow[last.a] # NoBar /\ last.preAbove[last.a] # NoBar
  /\ mBarAbove[last.preBelow[last.a]] = last.preAbove[last.a]
  /\ last.preGroup[last.a] # NoGroup
  /\ last.preGroupAlive # Groups

\* C7: a series s has s.barsGroup() = g exactly when g's member list contains
\* s; a series is in at most one member list and at most once in it.
C7_MembershipConsistent ==
  /\ \A s \in alive : mBarsGroup[s] \in groupAlive \cup {NoGroup}
  /\ \A s \in alive, g \in groupAlive : (mBarsGroup[s] = g) <=> Contains(mBars[g], s)
  /\ \A g \in groupAlive : Range(mBars[g]) \subseteq alive
  /\ \A g \in groupAlive, h \in groupAlive :
       g # h => Range(mBars[g]) \cap Range(mBars[h]) = {}
  /\ \A g \in groupAlive : Cardinality(Range(mBars[g])) = Len(mBars[g])

\* a series was moved from one group, which keeps a member, to another group,
\* which had one already
C7_Witness ==
  /\ last.op \in {"setBarsGroup", "append", "insert"}
  /\ last.g # NoGroup /\ last.a # NoBar
  /\ last.preGroup[last.a] \notin {NoGroup, last.g}
  /\ mBarsGroup[last.a] = last.g
  /\ Len(mBars[last.g]) >= 2
  /\ Len(mBars[last.preGroup[last.a]]) >= 1

\* C8: after clear() or the destruction of a group, each former member still
\* exists and has no group, the member list is empty, and the stack links and
\* the data of every series are as before.
C8_ClearDetaches ==
  (last.op \in {"clear", "destroyGroup"}) =>
    /\ \A s \in Range(last.preBars[last.g]) : s \in alive /\ mBarsGroup[s] = NoGroup
    /\ mBars[last.g] = <<>>
    /\ alive = last.preAlive
    /\ mBarBelow = last.preBelow /\ mBarAbove = last.preAbove
    /\ mDataContainer = last.preData

\* a group of at least two stacked series holding data was destroyed
C8_Witness ==
  /\ last.op = "destroyGroup"
  /\ Len(last.preBars[last.g]) >= 2
  /\ \E s \in Range(last.preBars[last.g]) : mBarBelow[s] # NoBar /\ mDataContainer[s] # <<>>
  /\ last.g \notin groupAlive

\* C9: after g.insert(i, s), s a series, s is the member of g at index i
\* clamped to 0 .. size-1, size being the member count once s is a member; a
\* series that was a member leaves the count as it was, a series that was not
\* has left any other group; the other members keep their order.
C9_InsertPost ==
  (last.op = "insert" /\ last.a # NoBar) =>
    LET l == mBars[last.g]
        pre == last.preBars[last.g]
        was == Contains(pre, last.a)
        size == IF was THEN Len(pre) ELSE Len(pre) + 1
        at == IF last.i < 0 THEN 0 ELSE IF last.i > size - 1 THEN size - 1 ELSE last.i
    IN /\ Len(l) = size
       /\ l[at + 1] = last.a
       /\ mBarsGroup[last.a] = last.g
       /\ \A h \in groupAlive \ {last.g} : ~Contains(mBars[h], last.a)
       /\ RemoveOne(l, last.a) = RemoveOne(pre, last.a)

\* a series of another group was inserted before the two members of the group
C9_Witness ==
  /\ last.op = "insert" /\ last.a # NoBar
  /\ last.preGroup[last.a] \notin {NoGroup, last.g}
  /\ Len(last.preBars[last.g]) >= 2
  /\ last.i < 0
  /\ mBars[last.g][1] = last.a

\* a member was moved to the end by an index beyond the list
C9_WitnessReposition ==
  /\ last.op = "insert" /\ last.a # NoBar
  /\ Len(last.preBars[last.g]) >= 3
  /\ last.preBars[last.g][1] = last.a
  /\ last.i >= Len(last.preBars[last.g])
  /\ mBars[last.g][Len(mBars[last.g])] = last.a

(***************************************************************************)
(* Properties of the colour gradient                                       *)
(***************************************************************************)
\* C10: whenever the buffer is not marked invalidated it has levelCount
\* entries and is what a rebuild from the present stops, interpolation and
\* level count gives; and the colours color and colorize return are entries
\* of that rebuild, never of a buffer made from earlier settings.
C10_BufferReflectsSettings ==
  LET fresh == colorBufferOf(mColorStops, mColorInterpolation, mLevelCount)
  IN /\ ~mColorBufferInvalidated =>
          (Len(mColorBuffer) = mLevelCount /\ mColorBuffer = fresh)
     /\ glast.op \in {"color", "colorize"} =>
          \A i \in 1..glast.n : glast.result[i] = fresh[glast.index[i] + 1]

\* color had to rebuild a buffer that an earlier call had built for another
\* level count and other colours
C10_Witness ==
  /\ glast.op = "color" /\ glast.rebuilt /\ glast.stale
  /\ glast.staleLen \notin {DefaultLevelCount, mLevelCount}
  /\ Cardinality(DOMAIN mColorStops) >= 2
  /\ ~mColorBufferInvalidated

\* C11: setLevelCount(n) with n < 2 sets the level count to 2, with any other
\* n it sets n; the level count is at least 2 in every state; and the call
\* marks the buffer invalidated exactly when the count it sets differs from
\* the count before, leaving the mark as it was otherwise.
C11_LevelCountClamped ==
  /\ mLevelCount >= 2
  /\ glast.op = "setLevelCount" =>
       /\ glast.n < 2 => mLevelCount = 2
       /\ glast.n >= 2 => mLevelCount = glast.n
       /\ mLevelCount # glast.preLevelCount => mColorBufferInvalidated
       /\ mLevelCount = glast.preLevelCount =>
            mColorBufferInvalidated = glast.preInvalidated

\* setLevelCount(1) on a gradient of more than two levels and a valid buffer
C11_Witness ==
  /\ glast.op = "setLevelCount" /\ glast.n = 1
  /\ glast.preLevelCount > 2 /\ ~glast.preInvalidated
  /\ mLevelCount = 2 /\ mColorBufferInvalidated

\* setLevelCount(0) on a gradient of two levels left its valid buffer valid
C11_WitnessKept ==
  /\ glast.op = "setLevelCount" /\ glast.n = 0
  /\ glast.preLevelCount = 2 /\ ~glast.preInvalidated
  /\ ~mColorBufferInvalidated

\* C12: for every position and every range of non-zero size, the index of
\* the buffer entry color reads lies in 0 .. levelCount-1; with periodic
\* enabled it is the raw index modulo levelCount, made non-negative by adding
\* levelCount; with periodic disabled a raw index below 0 reads entry 0 and a
\* raw index of levelCount or more reads entry levelCount-1.
C12_IndexInBuffer ==
  glast.op = "color" =>
    LET raw == rawIndex(glast.positions[1], glast.range, glast.logarithmic, mLevelCount)
        index == glast.index[1]
    IN /\ index \in 0..(mLevelCount - 1)
       /\ index + 1 \in DOMAIN mColorBuffer
       /\ mPeriodic => (raw - index) % mLevelCount = 0
       /\ (~mPeriodic /\ raw < 0) => index = 0
       /\ (~mPeriodic /\ raw >= mLevelCount) => index = mLevelCount - 1
       /\ (~mPeriodic /\ raw \in 0..(mLevelCount - 1)) => index = raw

\* a position below the range read on a periodic gradient, whose raw index
\* has a negative remainder
C12_Witness ==
  /\ glast.op = "color" /\ mPeriodic /\ ~glast.logarithmic
  /\ rawIndex(glast.positions[1], glast.range, FALSE, mLevelCount) < 0
  /\ CMod(rawIndex(glast.positions[1], glast.range, FALSE, mLevelCount), mLevelCount) < 0
  /\ glast.index[1] > 0

\* a position beyond the range read on a gradient that is not periodic
C12_WitnessClamped ==
  /\ glast.op = "color" /\ ~mPeriodic
  /\ rawIndex(glast.positions[1], glast.range, glast.logarithmic, mLevelCount) > mLevelCount
  /\ glast.index[1] = mLevelCount - 1

\* the colour color returns for a position on the gradient as it is, its
\* buffer being valid
colorAt(position, range, logarithmic) ==
  mColorBuffer[bufferIndex(rawIndex(position, range, logarithmic, mLevelCount),
                           mPeriodic, mLevelCount) + 1]

\* C13: for every gradient state, range, periodic and logarithmic flag,
\* stride factor and element i < n, colorize writes to out[i] the colour
\* that color(data[i*strideFactor], range, logarithmic) returns on the same
\* gradient.
C13_ColorizeAgreesWithColor ==
  glast.op = "colorize" =>
    \A i \in 1..glast.n :
      glast.result[i] = colorAt(glast.positions[i], glast.range, glast.logarithmic)

\* the index color reads for a position on the gradient as it is
indexAt(position, range) ==
  bufferIndex(rawIndex(position, range, FALSE, mLevelCount), mPeriodic, mLevelCount)

\* the whole multiples of the range size a position is moved by
PeriodInputs == {0 - 1, 1, 2}

\* C14: with periodic enabled a position outside the range wraps modulo
\* the range: for every position p, every range of positive size and every
\* whole k, color(p + k*range.size(), range, false) is color(p, range, false).
C14_PeriodicWraps ==
  (glast.op = "color" /\ mPeriodic /\ ~glast.logarithmic
     /\ glast.range[1] < glast.range[2]) =>
    \A k \in PeriodInputs :
      colorAt(glast.positions[1] + k * (glast.range[2] - glast.range[1]),
              glast.range, FALSE) = glast.result[1]

\* C15: for a gradient of at least two stops and a range with
\* lower < upper, the index color(p, range, false) reads does not decrease as
\* p grows within [lower, upper], periodic or not.
C15_IndexMonotone ==
  (glast.op = "color" /\ ~glast.logarithmic /\ glast.range[1] < glast.range[2]
     /\ Cardinality(DOMAIN mColorStops) >= 2
     /\ glast.positions[1] \in glast.range[1]..glast.range[2]) =>
    \A q \in glast.positions[1]..glast.range[2] :
      /\ glast.index[1] <= indexAt(q, glast.range)
      /\ \A q2 \in q..glast.range[2] : indexAt(q, glast.range) <= indexAt(q2, glast.range)

\* a periodic gradient of three levels or more read inside the range, at an
\* index between the first and the one read at the upper end
C15_Witness ==
  /\ glast.op = "color" /\ ~glast.logarithmic /\ mPeriodic
  /\ Cardinality(DOMAIN mColorStops) >= 2
  /\ glast.range[1] < glast.positions[1] /\ glast.positions[1] < glast.range[2]
  /\ glast.index[1] > 0
  /\ glast.index[1] < indexAt(glast.range[2], glast.range)

\* C16: a rebuild with n levels leaves every slot black when there is no
\* stop and every slot the colour of the stop when there is one; with two
\* stops or more the slot i, at position i/(n-1), has the colour of the first
\* stop when the position is at or before the first stop, the colour of the
\* last stop when it is after the last stop, and the colour of stop k when
\* it is the position of stop k.  The stops {0: black, 1: white} and n = 3
\* give a first slot black and a last slot white.
C16_RebuildAtStops ==
  ~mColorBufferInvalidated =>
    LET keys == DOMAIN mColorStops
        positionCmp(i, k) == i * PosDen - k * (mLevelCount - 1)
    IN /\ Len(mColorBuffer) = mLevelCount
       /\ keys = {} => \A i \in 1..mLevelCount : mColorBuffer[i] = Black
       /\ Cardinality(keys) = 1 =>
            \A i \in 1..mLevelCount : mColorBuffer[i] = mColorStops[Min(keys)]
       /\ Cardinality(keys) >= 2 =>
            \A i \in 0..(mLevelCount - 1) :
              /\ positionCmp(i, Min(keys)) <= 0 =>
                   mColorBuffer[i + 1] = mColorStops[Min(keys)]
              /\ positionCmp(i, Max(keys)) > 0 =>
                   mColorBuffer[i + 1] = mColorStops[Max(keys)]
              /\ \A k \in keys :
                   positionCmp(i, k) = 0 => mColorBuffer[i + 1] = mColorStops[k]

\* the slots (0-based) whose position i/(n-1) lies strictly between two
\* adjacent stops, on a gradient in RGB mode whose buffer is valid
SlotsBetweenStops ==
  IF mColorBufferInvalidated \/ mColorInterpolation # "ciRGB" THEN {}
  ELSE {i \in 0..(mLevelCount - 1) :
          /\ \E k \in DOMAIN mColorStops : k * (mLevelCount - 1) < i * PosDen
          /\ \E k \in DOMAIN mColorStops : k * (mLevelCount - 1) > i * PosDen
          /\ \A k \in DOMAIN mColorStops : k * (mLevelCount - 1) # i * PosDen}
LowStop(i) == Max({k \in DOMAIN mColorStops : k * (mLevelCount - 1) < i * PosDen})
HighStop(i) == Min({k \in DOMAIN mColorStops : k * (mLevelCount - 1) > i * PosDen})
\* (1-t)*low + t*high of a channel as the fraction BlendNum/BlendDen
BlendDen(i) == (HighStop(i) - LowStop(i)) * (mLevelCount - 1)
BlendNum(i, ch) ==
  LET tn == i * PosDen - LowStop(i) * (mLevelCount - 1)
  IN (BlendDen(i) - tn) * mColorStops[LowStop(i)][ch] + tn * mColorStops[HighStop(i)][ch]

\* C17 as stated: in RGB mode each channel of a slot strictly between two
\* adjacent stops is (1-t)*low + t*high rounded to the nearest whole channel
\* value.
C17_ChannelRoundedToNearest ==
  \A i \in SlotsBetweenStops, ch \in 1..3 :
    LET distance == mColorBuffer[i + 1][ch] * BlendDen(i) - BlendNum(i, ch)
    IN 2 * distance <= BlendDen(i) /\ 0 - 2 * distance <= BlendDen(i)

\* C17 amended: in RGB mode each channel of a slot strictly between two
\* adjacent stops is (1-t)*low + t*high with the fraction dropped, or one
\* less when the blend is a whole number: it is at most the blend and at
\* least the blend less one.
C17_ChannelTruncated ==
  \A i \in SlotsBetweenStops, ch \in 1..3 :
    /\ mColorBuffer[i + 1][ch] * BlendDen(i) <= BlendNum(i, ch)
    /\ mColorBuffer[i + 1][ch] * BlendDen(i) >= BlendNum(i, ch) - BlendDen(i)
    /\ BlendNum(i, ch) % BlendDen(i) # 0 =>
         mColorBuffer[i + 1][ch] = BlendNum(i, ch) \div BlendDen(i)

\* a rebuilt buffer with a channel whose blend lies more than a half above
\* the channel, and a channel whose blend is a whole number and comes out one
\* less
C17_Witness ==
  /\ \E i \in SlotsBetweenStops, ch \in 1..3 :
       2 * (BlendNum(i, ch) - mColorBuffer[i + 1][ch] * BlendDen(i)) > BlendDen(i)
  /\ \E i \in SlotsBetweenStops, ch \in 1..3 :
       /\ BlendNum(i, ch) % BlendDen(i) = 0
       /\ mColorBuffer[i + 1][ch] = BlendNum(i, ch) \div BlendDen(i) - 1

\* the distance of two points of a circle of the given circumference
ArcDistance(x, y, circumference) ==
  LET direct == IF x >= y THEN x - y ELSE y - x
  IN IF direct <= circumference - direct THEN direct ELSE circumference - direct

C19_InvertedReflectsStops ==
  [][glast'.op = "inverted" =>
       /\ glast'.gradient.stops =
            [k \in {PosDen - q : q \in DOMAIN mColorStops} |-> mColorStops[PosDen - k]]
       /\ glast'.gradient.interpolation = mColorInterpolation
       /\ glast'.gradient.levelCount = mLevelCount
       /\ glast'.gradient.periodic = mPeriodic
       /\ glast'.gradient.invalidated
       /\ UNCHANGED <<mColorStops, mColorInterpolation, mLevelCount, mPeriodic>>]_vars

\* inverted was called on a periodic gradient of several stops that are not
\* their own reflection, its buffer valid
C19_Witness ==
  /\ glast.op = "inverted"
  /\ Cardinality(DOMAIN mColorStops) > 2
  /\ glast.gradient.stops # mColorStops
  /\ DOMAIN glast.gradient.stops = DOMAIN mColorStops
  /\ mPeriodic /\ glast.gradient.periodic
  /\ ~mColorBufferInvalidated /\ glast.gradient.invalidated

\* positions of the range [0, 1] are taken in steps of 1/UnitSteps
UnitSteps == 4

\* the colour color(position, range, false) returns on a gradient object
colorOn(gradient, position, range) ==
  LET buffer == IF gradient.invalidated
                THEN colorBufferOf(gradient.stops, gradient.interpolation,
                                   gradient.levelCount)
                ELSE gradient.buffer
  IN buffer[bufferIndex(rawIndex(position, range, FALSE, gradient.levelCount),
                        gradient.periodic, gradient.levelCount) + 1]

\* C20: for a gradient whose stops are their own reflection (with every stop
\* p -> c there is a stop 1-p -> c), inverted().color(1 - p, range, false)
\* is original.color(p, range, false) for every p in [0, 1].
C20_InvertedMirrorsColor ==
  (/\ glast.op = "inverted"
   /\ \A k \in DOMAIN mColorStops :
        PosDen - k \in DOMAIN mColorStops /\ mColorStops[PosDen - k] = mColorStops[k]) =>
    \A q \in 0..UnitSteps :
      colorOn(glast.gradient, UnitSteps - q, <<0, UnitSteps>>)
        = colorOn([stops |-> mColorStops, levelCount |-> mLevelCount,
                   interpolation |-> mColorInterpolation, periodic |-> mPeriodic,
                   buffer |-> mColorBuffer, invalidated |-> mColorBufferInvalidated],
                  q, <<0, UnitSteps>>)

\* C21: operator== is true exactly when the level count, the interpolation,
\* the periodic flag and the whole stop mapping of the two gradients are
\* equal; the buffers of the two and their invalidation marks never
\* influence the result.
C21_EqualityIgnoresBuffer ==
  glast.op = "operator==" =>
    /\ glast.result[1] =
         (/\ glast.gradient.levelCount = mLevelCount
          /\ glast.gradient.interpolation = mColorInterpolation
          /\ glast.gradient.periodic = mPeriodic
          /\ DOMAIN glast.gradient.stops = DOMAIN mColorStops
          /\ \A k \in DOMAIN mColorStops : glast.gradient.stops[k] = mColorStops[k])
    /\ \A buffer \in {mColorBuffer, glast.gradient.buffer}, invalidated \in BOOLEAN :
         operatorEquals(thisGradient,
                        [glast.gradient EXCEPT !.buffer = buffer,
                                               !.invalidated = invalidated])
           = glast.result[1]

\* a gradient whose buffer color has rebuilt was found equal to one of the
\* same settings whose buffer is as constructed
C21_Witness ==
  /\ glast.op = "operator==" /\ glast.result[1]
  /\ ~mColorBufferInvalidated /\ glast.gradient.invalidated
  /\ glast.gradient.buffer # mColorBuffer
  /\ Cardinality(DOMAIN mColorStops) > 2

\* the colour a call of color returns on the gradient as it is, its buffer
\* rebuilt first when it is invalidated
colorNow(position, range, logarithmic) ==
  bufferRead[bufferIndex(rawIndex(position, range, logarithmic, mLevelCount),
                         mPeriodic, mLevelCount) + 1]

\* C22: color and colorize change nothing of the gradient but the buffer
\* and its invalidation mark: after either call the gradient compares
\* equal (operator==) to what it was before the call, and a second call of
\* color with the arguments of the first, nothing changed in between,
\* returns the colour the first returned.
C22_ReadsLeaveGradient ==
  [][glast'.op \in {"color", "colorize"} =>
       /\ UNCHANGED <<mColorStops, mLevelCount, mColorInterpolation, mPeriodic>>
       /\ operatorEquals(thisGradient', thisGradient)
       /\ \A p \in ColorPositionInputs, r \in ColorRangeInputs, lg \in BOOLEAN :
            (/\ glast'.op = "color" /\ glast'.positions = <<p>>
             /\ glast'.range = r /\ glast'.logarithmic = lg) =>
              colorNow(p, r, lg)' = glast'.result[1]]_vars

\* color rebuilt the buffer of a periodic gradient and returned a colour
\* the buffer did not hold before
C22_Witness ==
  /\ glast.op = "color" /\ glast.rebuilt /\ glast.stale
  /\ mPeriodic /\ glast.result[1] # Black
  /\ ~mColorBufferInvalidated

\* the series below x in its stack, the links being below
StackBelow(below, x) == Follow(below, x, NumBars)

\* the series whose links a.moveAbove(b) or a.moveBelow(b) may touch: a, the
\* neighbours a had, b, and the neighbour b had on the side a is put
MoveTouched(op, a, b) ==
  {a, b, mBarBelow[a], mBarAbove[a]}
    \cup (IF b = NoBar THEN {}
          ELSE IF op = "moveAbove" THEN {mBarAbove[b]} ELSE {mBarBelow[b]})

\* C30: a.moveAbove(b) and a.moveBelow(b) change only the links next to the
\* place a had and the place a gets: the series left in the stack a was in
\* keep their order, the series of b's stack keep their order with a put
\* directly next to b, the links of every series of any other stack are
\* unchanged, and no group membership, data or base value is changed.
C30_MoveChangesOnlyNearbyLinks ==
  [][last'.op \in {"moveAbove", "moveBelow"} =>
       LET a == last'.a
           b == last'.b
           moved == b # a /\ (b = NoBar \/ SameAxes(a, b))
       IN /\ UNCHANGED <<alive, keyAxis, valueAxis, mBarsGroup, mBars, groupAlive,
                         mDataContainer, sizeVars>>
          /\ \A x \in Bars \ MoveTouched(last'.op, a, b) :
               mBarBelow'[x] = mBarBelow[x] /\ mBarAbove'[x] = mBarAbove[x]
          /\ \A x \in Bars \ {a}, y \in Bars \ {a} :
               (y \in StackBelow(mBarBelow', x)) <=> (y \in StackBelow(mBarBelow, x))
          /\ \A x \in Bars \ {a}, y \in Bars \ {a} :
               (y \in StackBelow(mBarAbove', x)) <=> (y \in StackBelow(mBarAbove, x))
          /\ (moved /\ b # NoBar /\ last'.op = "moveAbove") =>
               (/\ mBarBelow'[a] = b /\ mBarAbove'[b] = a
                /\ mBarAbove'[a] = (IF mBarAbove[b] = a THEN mBarAbove[a]
                                    ELSE mBarAbove[b]))
          /\ (moved /\ b # NoBar /\ last'.op = "moveBelow") =>
               (/\ mBarAbove'[a] = b /\ mBarBelow'[b] = a
                /\ mBarBelow'[a] = (IF mBarBelow[b] = a THEN mBarBelow[a]
                                    ELSE mBarBelow[b]))
          /\ (moved /\ b = NoBar) =>
               (mBarBelow'[a] = NoBar /\ mBarAbove'[a] = NoBar)
          /\ ~moved => UNCHANGED <<mBarBelow, mBarAbove>>]_vars

\* a series was taken out of the middle of a stack and put between two
\* series of that stack's remainder
C30_Witness ==
  /\ IsMove /\ last.b # NoBar /\ last.b # last.a /\ CallSameAxes
  /\ last.preBelow[last.a] # NoBar /\ last.preAbove[last.a] # NoBar
  /\ last.b \notin {last.preBelow[last.a], last.preAbove[last.a]}
  /\ mBarBelow[last.a] # NoBar /\ mBarAbove[last.a] # NoBar
  /\ mBarAbove[last.preBelow[last.a]] = last.preAbove[last.a]

\* the points of a sequence with how often each occurs
PointBag(points) ==
  [p \in Range(points) |-> Cardinality({i \in 1..Len(points) : points[i] = p})]

\* the points (keys[i], values[i]) for the i both vectors have
PairedPoints(keys, values) ==
  [i \in 1..Len(keys) \cap 1..Len(values) |-> QCPBarsData(keys[i], values[i])]

\* C27: addData(keys, values) with vectors of different lengths adds exactly
\* min(|keys|, |values|) points, keys[i] paired with values[i]; and after
\* setData the container holds exactly those points and none of the points
\* it held before.
C27_DataTruncatedToShorter ==
  /\ last.op = "addData" =>
       /\ Len(mDataContainer[last.a]) =
            Len(last.preData[last.a])
              + (IF Len(last.keys) <= Len(last.values)
                 THEN Len(last.keys) ELSE Len(last.values))
       /\ PointBag(mDataContainer[last.a]) =
            PointBag(last.preData[last.a] \o PairedPoints(last.keys, last.values))
  /\ last.op = "setData" =>
       PointBag(mDataContainer[last.a]) =
         PointBag(PairedPoints(last.keys, last.values))
  /\ last.op \in {"addData", "setData"} =>
       \A s \in Bars \ {last.a} : mDataContainer[s] = last.preData[s]

\* setData was given more keys than values on a series that held other
\* points, and addData more values than keys on a series that held points
C27_Witness ==
  \/ /\ last.op = "setData" /\ Len(last.keys) > Len(last.values)
     /\ last.preData[last.a] # <<>> /\ Len(mDataContainer[last.a]) = 2
     /\ \A i \in 1..Len(last.preData[last.a]) :
          \A k \in 1..2 : mDataContainer[last.a][k] # last.preData[last.a][i]
  \/ /\ last.op = "addData" /\ Len(last.keys) < Len(last.values)
     /\ Len(last.preData[last.a]) = 2 /\ Len(mDataContainer[last.a]) = 3

\* C29: for any number of distinct roots, odd or even, with widths and a
\* spacing s in absolute pixels, the offsets of the roots at adjacent slots
\* i and i+1 differ by exactly w_i/2 + s + w_(i+1)/2; the bars never overlap
\* when s >= 0.
C29_AdjacentSlotsSpaced ==
  last.op = "slotOffsets" =>
    \A i \in 1..(Len(last.keys) - 1) :
      /\ 2 * (last.result[i + 1] - last.result[i]) =
           last.keys[i] + 2 * last.values[i] + last.keys[i + 1]
      /\ last.values[i] >= 0 =>
           2 * last.result[i] + last.keys[i] <= 2 * last.result[i + 1] - last.keys[i + 1]

\* five base bars, the two left of the centre of different widths, with a
\* spacing above 0
C29_Witness ==
  /\ last.op = "slotOffsets" /\ Len(last.keys) = 5
  /\ last.keys[1] # last.keys[2] /\ last.values[1] > 0
  /\ last.result[1] < last.result[2] /\ last.result[3] = 0

\* the group keyPixelOffset was called on has exactly three members, none
\* of them stacked, of one pixel width
ThreeEqualBars ==
  /\ last.op = "keyPixelOffset"
  /\ Len(mBars[last.g]) = 3
  /\ \A i \in 1..3 : /\ mBarBelow[mBars[last.g][i]] = NoBar
                     /\ mBarAbove[mBars[last.g][i]] = NoBar
                     /\ pixelWidth(mBars[last.g][i], last.keys[1])
                          = pixelWidth(mBars[last.g][1], last.keys[1])
  /\ Contains(mBars[last.g], last.a)

\* C25: in a group of exactly 3 unstacked series of equal pixel width,
\* keyPixelOffset returns 0 for the member of index 1, and for the members
\* of indices 0 and 2 offsets of equal magnitude and opposite sign, negative
\* for index 0 and positive for index 2, the magnitude being one bar width
\* plus one spacing.
C25_ThreeBarsSymmetric ==
  ThreeEqualBars =>
    LET members == mBars[last.g]
        width == pixelWidth(members[1], last.keys[1])
        spacing == getPixelSpacing(last.g, members[1], last.keys[1])
        index == IndexOf(members, last.a)
    IN /\ index = 1 => last.result[1] = 0
       /\ index = 0 => (last.result[1] = 0 - (width + spacing) /\ last.result[1] < 0)
       /\ index = 2 => (last.result[1] = width + spacing /\ last.result[1] > 0)

\* the base bars of a group by what they are: the bottom series of the
\* stacks of the members, each once, in the order of the first member of
\* each stack
StackRoots(g) == {stackRoot(mBars[g][i]) : i \in 1..Len(mBars[g])}
FirstMember(g, root) == Min({i \in 1..Len(mBars[g]) : stackRoot(mBars[g][i]) = root})
SlotOf(g, root) ==
  Cardinality({r \in StackRoots(g) : FirstMember(g, r) < FirstMember(g, root)})
SlotRoots(g) ==
  [k \in 1..Cardinality(StackRoots(g)) |->
     CHOOSE r \in StackRoots(g) : SlotOf(g, r) = k - 1]

\* C26: keyPixelOffset gives one slot to each distinct stack root of the
\* members, in the order the roots first appear in the member list; members
\* of one root share its slot, any two series of one root get the same
\* offset, and a series whose root is the root of no member gets offset 0.
C26_OneSlotPerRoot ==
  last.op = "keyPixelOffset" =>
    LET g == last.g
        keyCoord == last.keys[1]
        root == stackRoot(last.a)
    IN /\ root \notin StackRoots(g) => last.result[1] = 0
       /\ root \in StackRoots(g) =>
            last.result[1] =
              slotOffset([k \in 1..Cardinality(StackRoots(g)) |->
                            pixelWidth(SlotRoots(g)[k], keyCoord)],
                         [k \in 1..Cardinality(StackRoots(g)) |->
                            getPixelSpacing(g, SlotRoots(g)[k], keyCoord)],
                         SlotOf(g, root))
       /\ \A t \in alive :
            stackRoot(t) = root => keyPixelOffset(g, t, keyCoord) = last.result[1]

\* three members in two stacks, the offset asked for a member that sits on
\* another member and is not in the middle
C26_Witness ==
  /\ last.op = "keyPixelOffset"
  /\ Len(mBars[last.g]) = 3 /\ Cardinality(StackRoots(last.g)) = 2
  /\ mBarBelow[last.a] # NoBar /\ mBarBelow[last.a] \in Range(mBars[last.g])
  /\ last.result[1] # 0
  /\ stackRoot(mBars[last.g][1]) # mBars[last.g][1]

\* a key strictly within epsilon of key, epsilon being |key|/EpsilonDen, or
\* 1/EpsilonDen when key is 0
CloseTo(pointKey, key) ==
  LET millionths == IF key = 0 THEN KeyDen ELSE qAbs(key)
      distance == qAbs(pointKey - key)
  IN /\ distance <= millionths \div EpsilonDen
     /\ distance * EpsilonDen < millionths

\* what the series below adds to the stack at key: of its values at keys
\* close to key the largest above 0, or the smallest below 0, or 0
StackTop(below, key, positive) ==
  LET close == {mDataContainer[below][i].value :
                  i \in {j \in 1..Len(mDataContainer[below]) :
                           CloseTo(mDataContainer[below][j].key, key)}}
  IN IF positive THEN Max({0} \cup {v \in close : v > 0})
     ELSE Min({0} \cup {v \in close : v < 0})

RECURSIVE StackTops(_, _, _)
StackTops(chain, key, positive) ==
  IF chain = {} THEN 0
  ELSE LET below == CHOOSE x \in chain : TRUE
       IN StackTop(below, key, positive) + StackTops(chain \ {below}, key, positive)

\* C23: for a series S with the series B1 ... Bk below it, Bk the bottom,
\* getStackedBaseValue(key, positive) is the base value of Bk plus, for each
\* Bi, of the values of its points whose key is strictly within epsilon of
\* key (epsilon = |key|*1e-6, or 1e-6 when key is 0) the largest above 0
\* when positive and the smallest below 0 when not, or 0 when there is
\* none; a series with no series below it returns its own base value.
C23_StackedBaseIsSumOfTops ==
  last.op = "getStackedBaseValue" =>
    last.result[1] =
      IF mBarBelow[last.a] = NoBar THEN mBaseValue[last.a]
      ELSE mBaseValue[stackRoot(last.a)]
             + StackTops(StackBelow(mBarBelow, last.a), last.keys[1], last.values[1])

\* asked of a series with two series below it, the bottom of another base
\* value than 0, one of the two holding two points within epsilon of the
\* key and one outside of it: the result is not the base value
C23_Witness ==
  /\ last.op = "getStackedBaseValue"
  /\ mBarBelow[last.a] # NoBar /\ mBarBelow[mBarBelow[last.a]] # NoBar
  /\ mBaseValue[stackRoot(last.a)] # 0
  /\ \E below \in StackBelow(mBarBelow, last.a) :
       /\ Cardinality({i \in 1..Len(mDataContainer[below]) :
                         CloseTo(mDataContainer[below][i].key, last.keys[1])}) >= 2
       /\ \E i \in 1..Len(mDataContainer[below]) :
            /\ ~CloseTo(mDataContainer[below][i].key, last.keys[1])
            /\ mDataContainer[below][i].value > last.result[1]
  /\ last.result[1] # mBaseValue[stackRoot(last.a)]

C28_OwnBaseValueIgnoredInStack ==
  (last.op = "setBaseValue" /\ mBarBelow[last.a] # NoBar) =>
    /\ \A key \in QueryKeyInputs, positive \in BOOLEAN :
         getStackedBaseValue(mBaseValue, last.a, key, positive)
           = getStackedBaseValue(last.preBase, last.a, key, positive)
    /\ \A i \in 1..Len(mDataContainer[last.a]) :
         getBarPolygon(mBaseValue, last.a, mDataContainer[last.a][i].key,
                       mDataContainer[last.a][i].value)
           = getBarPolygon(last.preBase, last.a, mDataContainer[last.a][i].key,
                           mDataContainer[last.a][i].value)
    /\ \A inSignDomain \in SignDomains :
         getValueRange(mBaseValue, last.a, inSignDomain)
           = getValueRange(last.preBase, last.a, inSignDomain)

====
